---- MODULE Spec2Model ----
(***************************************************************************)
(* A model of the SendSeven n8n community node package:                    *)
(*   - GenericFunctions.ts: sendSevenApiRequest, sendSevenApiRequestAllItems,*)
(*     getCredentialType, getErrorMessage, validateRequiredFields and the   *)
(*     response formatters;                                                 *)
(*   - SendSeven.node.ts: SendSeven.execute (the action node) and           *)
(*     SendSevenTrigger (webhookMethods checkExists/create/delete and the   *)
(*     webhook() delivery handler).                                         *)
(* JavaScript objects are functions from key strings to values; a key that  *)
(* is absent from the DOMAIN reads as undefined.                            *)
(***************************************************************************)
EXTENDS Integers, Sequences, FiniteSets, TLC

VARIABLES
    node,            \* which node class this instance is: "sendSeven" | "sendSevenTrigger"
    authentication,  \* the node's 'authentication' parameter: "apiKey" | "oAuth2"
    oauthReadable,   \* whether this.getCredentials('sendSevenOAuth2Api') succeeds
    api,             \* the remote API's paginated collection and its envelope behaviour
    requests,        \* the HTTP requests issued so far, as a set of [item, method, url, cred]
    lastRequest,     \* the most recent HTTP request of the running item or hook call:
                     \* its options and credential type (NoRequest while it issued none)
    \* ---- SendSeven.execute
    resource,        \* getNodeParameter('resource', 0)
    operation,       \* getNodeParameter('operation', 0)
    continueOnFail,  \* this.continueOnFail()
    nItems,          \* items.length
    i,               \* the loop index of execute (0-based, as in the source)
    returnData,      \* execute's returnData
    pc,              \* control state of the running entry point
    thrown,          \* the error execute() threw (NoError while none)
    cur,             \* the input item being processed / processed last, and what became of it
    \* ---- sendSevenApiRequestAllItems (locals)
    page,
    hasMore,
    allItems,
    pageRequests,    \* page requests issued by the current call
    \* ---- SendSevenTrigger
    event,           \* getNodeParameter('event')
    staticData,      \* getWorkflowStaticData('node')
    remote,          \* the webhook subscriptions the remote API holds
    calls,           \* lifecycle calls and deliveries made so far
    lastCall         \* the most recent hook call or delivery, and its result

vars == << node, authentication, oauthReadable, api, requests, lastRequest,
           resource, operation, continueOnFail, nItems, i, returnData, pc, thrown, cur,
           page, hasMore, allItems, pageRequests,
           event, staticData, remote, calls, lastCall >>

executeVars == << resource, operation, continueOnFail, nItems, i, returnData, thrown, cur >>
pagingVars  == << page, hasMore, allItems, pageRequests >>
triggerVars == << event, staticData, remote, calls, lastCall >>
envVars     == << node, authentication, oauthReadable, api >>

-----------------------------------------------------------------------------
(* Bounds of the model *)

\* most input items of one execute() run
MaxItems == 2
\* the simulated API holds at most this many pages
MaxServerPages == 101
\* only the first MaxFailAt page requests of a sendSevenApiRequestAllItems call may fail
MaxFailAt == 2
\* most lifecycle calls and deliveries of one trigger node
MaxCalls == 3

(* Program constants *)

\* const pageSize = 100
pageSize == 100
\* if (page > 100) break
SafetyLimit == 100
\* the not-found status delete() tolerates
NotFound == 404

API_BASE_URL == "https://api.sendseven.com/api/v1"

-----------------------------------------------------------------------------
(* JavaScript objects and values *)

EmptyObj == [k \in {} |-> ""]

Has(o, k) == k \in DOMAIN o

\* obj with key k set to v
With(o, k, v) == (k :> v) @@ o

\* delete obj[k]
Without(o, k) == [x \in DOMAIN o \ {k} |-> o[x]]

\* a scalar that keeps its JavaScript type, for the comparisons that use === / !==
JsNumber(n) == [t |-> "number", v |-> n]
JsString(s) == [t |-> "string", v |-> s]
JsUndefined == [t |-> "undefined"]
JsNull      == [t |-> "null"]

JsTruthy(x) ==
    CASE x.t = "number" -> x.v # 0
      [] x.t = "string" -> x.v # ""
      [] OTHER          -> FALSE

\* a || b
JsOr(a, b) == IF JsTruthy(a) THEN a ELSE b

\* a === b
StrictEquals(a, b) == a.t = b.t /\ (a.t \in {"number", "string"} => a.v = b.v)

\* String(n) / n.toString()
NumberToString(n) == ToString(n)

-----------------------------------------------------------------------------
(* Errors *)

NoError == [name |-> "none"]

\* What this.helpers.httpRequestWithAuthentication rejects with: an HTTP error
\* status with a response body, or a transport error without a response.
RawErrors ==
    { [name |-> "HttpError", status |-> 404,
       response |-> [body |-> [detail |-> "Not found"]],
       message |-> "Request failed with status code 404"],
      [name |-> "HttpError", status |-> 500,
       response |-> [body |-> [message |-> "Internal error"]],
       message |-> "Request failed with status code 500"],
      [name |-> "HttpError", message |-> "connect ECONNREFUSED"],
      [name |-> "HttpError", response |-> [body |-> EmptyObj]] }

\* What this.getCredentials rejects with
CredentialError == [name |-> "CredentialError", message |-> "Node does not have any credentials set"]

\* an extraction that prefers the body's message to its detail
MessageBeforeDetail(err) ==
    LET body == IF Has(err, "response") /\ Has(err.response, "body")
                THEN err.response.body ELSE EmptyObj
    IN  IF Has(body, "message") /\ body.message # "" THEN body.message
        ELSE IF Has(body, "detail") /\ body.detail # "" THEN body.detail
        ELSE IF Has(err, "message") /\ err.message # "" THEN err.message
        ELSE "An unknown error occurred"

\* function getErrorMessage(error)
getErrorMessage(err) ==
    LET body == IF Has(err, "response") /\ Has(err.response, "body")
                THEN err.response.body ELSE EmptyObj
    IN  IF Has(body, "detail") /\ body.detail # "" THEN body.detail
        ELSE IF Has(body, "message") /\ body.message # "" THEN body.message
        ELSE IF Has(err, "message") /\ err.message # "" THEN err.message
        ELSE "An unknown error occurred"

\* new NodeApiError(node, error, { message }): the host's API error. Its httpCode
\* is string | null: the status found on the wrapped error, converted with
\* toString(); it has no statusCode property.
NodeApiError(error, message) ==
    [name     |-> "NodeApiError",
     message  |-> message,
     httpCode |-> IF Has(error, "status") THEN JsString(NumberToString(error.status))
                  ELSE JsNull,
     cause    |-> error.name]

\* new NodeOperationError(node, message) and new Error(message)
NodeOperationError(message) == [name |-> "NodeOperationError", message |-> message]
Error(message) == [name |-> "Error", message |-> message]
TypeError(message) == [name |-> "TypeError", message |-> message]
SyntaxError(message) == [name |-> "SyntaxError", message |-> message]

-----------------------------------------------------------------------------
(* The request helper *)

\* this.getCredentials(name): only the OAuth2 read is made by this package
getCredentials(name) ==
    IF name = "sendSevenOAuth2Api" /\ oauthReadable
    THEN [threw |-> FALSE]
    ELSE [threw |-> TRUE, error |-> CredentialError]

\* a credential choice without the try/catch: the failed read propagates
CredentialTypeWithoutCatch ==
    IF getCredentials("sendSevenOAuth2Api").threw
    THEN [threw |-> TRUE, error |-> CredentialError]
    ELSE [threw |-> FALSE, type |-> "sendSevenOAuth2Api"]

\* a credential choice that follows the node's authentication parameter
CredentialTypeByParameter ==
    [threw |-> FALSE,
     type  |-> IF authentication = "oAuth2" THEN "sendSevenOAuth2Api" ELSE "sendSevenApi"]

\* async function getCredentialType(): try OAuth2, fall back to API key
getCredentialType ==
    IF getCredentials("sendSevenOAuth2Api").threw
    THEN [threw |-> FALSE, type |-> "sendSevenApi"]
    ELSE [threw |-> FALSE, type |-> "sendSevenOAuth2Api"]

\* the IHttpRequestOptions sendSevenApiRequest builds (lines 37-53)
RequestOptions(method, endpoint, body, query) ==
    LET base  == [method |-> method, url |-> API_BASE_URL \o endpoint, json |-> TRUE]
        withB == IF method = "GET" \/ DOMAIN body = {} THEN base ELSE With(base, "body", body)
    IN  IF DOMAIN query = {} THEN withB ELSE With(withB, "qs", query)

\* async function sendSevenApiRequest(method, endpoint, body, query); `outcome`
\* is what the HTTP layer answers: [ok |-> TRUE, data |-> d] or
\* [ok |-> FALSE, error |-> e].  The result tells whether a request went out
\* (sent, with its options and credential type) and what the call returned or threw.
sendSevenApiRequest(method, endpoint, body, query, outcome) ==
    LET options == RequestOptions(method, endpoint, body, query)
        credentialType == getCredentialType
    IN  IF credentialType.threw
        THEN [sent |-> FALSE, threw |-> TRUE,
              error |-> NodeApiError(credentialType.error, getErrorMessage(credentialType.error))]
        ELSE IF outcome.ok
        THEN [sent |-> TRUE, request |-> With(options, "cred", credentialType.type),
              threw |-> FALSE, data |-> outcome.data]
        ELSE [sent |-> TRUE, request |-> With(options, "cred", credentialType.type),
              threw |-> TRUE,
              error |-> NodeApiError(outcome.error, getErrorMessage(outcome.error))]

-----------------------------------------------------------------------------
(* Response values and the response formatters *)

Undefined == "<undefined>"
Null == "<null>"

\* obj[k], undefined when the key is absent
Get(o, k) == IF Has(o, k) THEN o[k] ELSE Undefined

\* whether obj[k] is truthy, for string-valued keys
TruthyAt(o, k) == Has(o, k) /\ o[k] \notin {Undefined, Null, ""}

\* (obj[k] as IDataObject) || dflt
ObjOr(o, k, dflt) == IF Has(o, k) THEN o[k] ELSE dflt

\* a JSON value received from the API: an object or an array
Obj(o) == [isArray |-> FALSE, o |-> o]
Arr(s) == [isArray |-> TRUE, a |-> s]

\* export function formatContactResponse(contact)
formatContactResponse(contact) ==
    [id           |-> Get(contact, "id"),
     name         |-> Get(contact, "name"),
     firstName    |-> Get(contact, "first_name"),
     lastName     |-> Get(contact, "last_name"),
     email        |-> Get(contact, "email"),
     phone        |-> Get(contact, "phone"),
     company      |-> Get(contact, "company"),
     notes        |-> Get(contact, "notes"),
     customFields |-> Get(contact, "custom_fields"),
     tags         |-> Get(contact, "tags"),
     createdAt    |-> Get(contact, "created_at"),
     updatedAt    |-> Get(contact, "updated_at")]

\* export function formatConversationResponse(conversation)
formatConversationResponse(conversation) ==
    [id               |-> Get(conversation, "id"),
     contactId        |-> Get(conversation, "contact_id"),
     contactName      |-> IF TruthyAt(conversation, "contact_name")
                          THEN conversation.contact_name
                          ELSE IF Has(conversation, "contact")
                               THEN Get(conversation.contact, "name") ELSE Undefined,
     channelType      |-> Get(conversation, "channel_type"),
     channelId        |-> Get(conversation, "channel_id"),
     status           |-> Get(conversation, "status"),
     assignedToUserId |-> Get(conversation, "assigned_to_user_id"),
     lastMessageAt    |-> Get(conversation, "last_message_at"),
     messageCount     |-> Get(conversation, "message_count"),
     unreadCount      |-> Get(conversation, "unread_count"),
     createdAt        |-> Get(conversation, "created_at"),
     updatedAt        |-> Get(conversation, "updated_at")]

\* export function formatMessageResponse(message)
formatMessageResponse(message) ==
    [id             |-> Get(message, "id"),
     conversationId |-> Get(message, "conversation_id"),
     channelId      |-> Get(message, "channel_id"),
     direction      |-> Get(message, "direction"),
     messageType    |-> IF TruthyAt(message, "message_type") THEN message.message_type
                        ELSE Get(message, "type"),
     text           |-> IF TruthyAt(message, "text") THEN message.text
                        ELSE Get(message, "content"),
     status         |-> Get(message, "status"),
     to             |-> Get(message, "to"),
     from           |-> Get(message, "from"),
     hasAttachments |-> Has(message, "attachments") /\ Len(message.attachments) > 0,
     attachments    |-> Get(message, "attachments"),
     createdAt      |-> Get(message, "created_at")]

\* responseData.map(f)
Map(f(_), s) == [n \in 1..Len(s) |-> f(s[n])]

-----------------------------------------------------------------------------
(* The remote API, as far as execute() sees it *)

\* the resources a single-resource request answers with
ServerMessage ==
    [id |-> "msg_1", conversation_id |-> "conv_1", channel_id |-> "ch_1",
     direction |-> "outbound", type |-> "text", content |-> "hello",
     status |-> "sent", to |-> "+4915100000", created_at |-> "t1"]
ServerContact ==
    [id |-> "ct_1", name |-> "Ada", email |-> "ada@example.com",
     created_at |-> "t1", updated_at |-> "t2"]
ServerConversation ==
    [id |-> "conv_1", contact_id |-> "ct_1", contact |-> [name |-> "Ada"],
     channel_type |-> "whatsapp", status |-> "open", created_at |-> "t1"]

\* The API's collection has `pages` pages of pageSize items, the final one of
\* `last` items, and fills the pagination envelope of a page response as `env`
\* says: "honest" (page, total_pages), "none" (no envelope), "always_more"
\* (total_pages always beyond page), "arbitrary" (any of these, per response).
SmallApiConfigs ==
    { [pages |-> n, last |-> l, env |-> m] :
        n \in {1, 2}, l \in {1, pageSize}, m \in {"honest", "none"} }
    \cup { [pages |-> 0, last |-> 0, env |-> m] : m \in {"honest", "none"} }
\* envelopes that can keep sendSevenApiRequestAllItems going beyond the collection
RunawayApiConfigs ==
    { [pages |-> 1, last |-> 1, env |-> "always_more"],
      [pages |-> 2, last |-> pageSize, env |-> "arbitrary"] }
\* collections that reach the safety limit of sendSevenApiRequestAllItems
LargeApiConfigs ==
    { [pages |-> SafetyLimit, last |-> 1, env |-> "honest"],
      [pages |-> SafetyLimit, last |-> pageSize, env |-> "honest"],
      [pages |-> MaxServerPages, last |-> pageSize, env |-> "honest"],
      [pages |-> MaxServerPages, last |-> pageSize, env |-> "none"] }
ApiConfigs == SmallApiConfigs \cup RunawayApiConfigs \cup LargeApiConfigs
DefaultApi == [pages |-> 1, last |-> 1, env |-> "honest"]

\* the collection's size
TotalItems(a) == IF a.pages = 0 THEN 0 ELSE (a.pages - 1) * pageSize + a.last

\* the items first..last of the collection
ItemRange(first, last) == [n \in 1..(last - first + 1) |-> [id |-> first + n - 1]]

Min(a, b) == IF a < b THEN a ELSE b

\* the items of page p when pages hold size items
PageItems(a, p, size) ==
    ItemRange((p - 1) * size + 1, Min(p * size, TotalItems(a)))

\* the responses the API may give to GET <collection>?page=p&page_size=size
PageResponses(a, p, size) ==
    LET items  == PageItems(a, p, size)
        honest == [items |-> items, pagination |-> [page |-> p, total_pages |-> a.pages]]
        more   == [items |-> items, pagination |-> [page |-> p, total_pages |-> p + 1]]
        final  == [items |-> items, pagination |-> [page |-> p, total_pages |-> p]]
        bare   == IF Len(items) = 0 THEN {[items |-> items], [total |-> 0]}
                  ELSE {[items |-> items]}
    IN  CASE a.env = "honest"      -> {Obj(honest)}
          [] a.env = "none"        -> {Obj(r) : r \in bare}
          [] a.env = "always_more" -> {Obj(more)}
          [] OTHER                 -> {Obj(r) : r \in bare \cup {honest, more, final}}

\* what the HTTP layer may answer to a request, given the responses the API
\* has for it and whether the request may fail
Outcomes(responses, mayFail) ==
    { [ok |-> TRUE, data |-> d] : d \in responses }
    \cup { [ok |-> FALSE, error |-> e] : e \in IF mayFail THEN RawErrors ELSE {} }

-----------------------------------------------------------------------------
(* SendSeven.execute: the parameters of an input item *)

\* the resource/operation pairs the node offers
Operations ==
    { <<"message", "send">>,
      <<"contact", "create">>, <<"contact", "update">>, <<"contact", "get">>,
      <<"contact", "search">>, <<"contact", "addTag">>,
      <<"conversation", "get">>, <<"conversation", "search">>,
      <<"conversation", "close">>, <<"conversation", "assign">>,
      <<"whatsappTemplate", "send">>, <<"whatsappTemplate", "list">> }

\* the operations that can call sendSevenApiRequestAllItems
ListOperations ==
    { <<"contact", "search">>, <<"conversation", "search">>, <<"whatsappTemplate", "list">> }

\* the declared defaults of the node's properties
DefaultParams ==
    [channelId |-> "", to |-> "", text |-> "",
     contactId |-> "", tagId |-> "", name |-> "", email |-> "", phone |-> "",
     additionalFields |-> EmptyObj, searchQuery |-> "",
     conversationId |-> "", userId |-> "", filters |-> EmptyObj,
     waChannelId |-> "", recipientPhone |-> "", templateName |-> "",
     templateLanguage |-> "en", templateVariables |-> EmptyObj,
     returnAll |-> FALSE, limit |-> 50]

\* a text parameter left empty or filled in
Filled(v) == {"", v}

AdditionalFieldsSet ==
    { EmptyObj,
      [firstName |-> "Ada", lastName |-> "", company |-> "ACME"],
      [notes |-> "vip", customFields |-> JsString("{\"tier\":\"gold\"}")],
      [customFields |-> JsString("")],
      [customFields |-> JsString("{}")],
      [customFields |-> JsString("tier=gold")],
      [customFields |-> [t |-> "object", o |-> [tier |-> "gold"]]] }

FiltersSet ==
    { EmptyObj, [status |-> "open"], [contactId |-> "ct_1", channelType |-> "whatsapp"] }

TemplateVariablesSet ==
    { EmptyObj,
      [variables |-> << >>],
      [variables |-> << [name |-> "1", value |-> JsString("Ada")] >>],
      [variables |-> << [name |-> "1", value |-> JsNumber(7)],
                        [name |-> "2", value |-> JsString("Ada")] >>] }

\* the values of the 'limit' parameter tried
Limits == {1, 50}

\* the parameter values tried for an item of the given operation
ParamSets(res, op) ==
    CASE <<res, op>> = <<"message", "send">> ->
           { [DefaultParams EXCEPT !.channelId = c, !.to = t, !.text = x] :
               c \in Filled("ch_1"), t \in Filled("+4915100000"), x \in Filled("hello") }
      [] <<res, op>> = <<"contact", "create">> ->
           { [DefaultParams EXCEPT !.name = n, !.email = e, !.phone = ph,
                                   !.additionalFields = a] :
               n \in Filled("Ada"), e \in Filled("ada@example.com"),
               ph \in Filled("+4915100000"), a \in AdditionalFieldsSet }
      [] <<res, op>> = <<"contact", "update">> ->
           { [DefaultParams EXCEPT !.contactId = c, !.name = n, !.email = e,
                                   !.additionalFields = a] :
               c \in Filled("ct_1"), n \in Filled("Ada"), e \in Filled("ada@example.com"),
               a \in AdditionalFieldsSet }
      [] <<res, op>> = <<"contact", "get">> ->
           { [DefaultParams EXCEPT !.contactId = c] : c \in Filled("ct_1") }
      [] <<res, op>> = <<"contact", "search">> ->
           { [DefaultParams EXCEPT !.searchQuery = q, !.email = e, !.returnAll = TRUE] :
               q \in Filled("ada"), e \in {""} }
           \cup { [DefaultParams EXCEPT !.searchQuery = q, !.email = e, !.limit = l] :
               q \in Filled("ada"), e \in {"ada@example.com"}, l \in Limits }
      [] <<res, op>> = <<"contact", "addTag">> ->
           { [DefaultParams EXCEPT !.contactId = c, !.tagId = t] :
               c \in Filled("ct_1"), t \in Filled("tag_1") }
      [] <<res, op>> \in {<<"conversation", "get">>, <<"conversation", "close">>} ->
           { [DefaultParams EXCEPT !.conversationId = c] : c \in Filled("conv_1") }
      [] <<res, op>> = <<"conversation", "search">> ->
           { [DefaultParams EXCEPT !.filters = f, !.returnAll = TRUE] :
               f \in {EmptyObj, [status |-> "open"]} }
           \cup { [DefaultParams EXCEPT !.filters = f, !.limit = l] :
               f \in FiltersSet \ {EmptyObj}, l \in Limits }
      [] <<res, op>> = <<"conversation", "assign">> ->
           { [DefaultParams EXCEPT !.conversationId = c, !.userId = u] :
               c \in Filled("conv_1"), u \in Filled("usr_1") }
      [] <<res, op>> = <<"whatsappTemplate", "send">> ->
           { [DefaultParams EXCEPT !.waChannelId = c, !.recipientPhone = t,
                                   !.templateName = n, !.templateVariables = v] :
               c \in Filled("ch_1"), t \in Filled("+4915100000"),
               n \in Filled("welcome"), v \in TemplateVariablesSet }
      [] OTHER ->
           { [DefaultParams EXCEPT !.waChannelId = c, !.returnAll = TRUE] :
               c \in Filled("ch_1") }
           \cup { [DefaultParams EXCEPT !.waChannelId = c, !.limit = l] :
               c \in Filled("ch_1"), l \in Limits }

-----------------------------------------------------------------------------
(* SendSeven.execute: from the parameters to the request *)

\* export function validateRequiredFields(node, fields, required): the error it
\* throws for the first required field that is falsy, or none
validateRequiredFields(fields, required) ==
    LET missing == { n \in 1..Len(required) : fields[required[n]] = "" }
    IN  IF missing = {} THEN [threw |-> FALSE]
        ELSE LET first == CHOOSE n \in missing : \A m \in missing : n <= m
             IN  [threw |-> TRUE,
                  error |-> NodeOperationError(
                      "The \"" \o required[first] \o "\" field is required")]

\* a parse that takes every text, and gives an empty object for a malformed one
ParseAnything(text) ==
    CASE text = "{\"tier\":\"gold\"}" -> [threw |-> FALSE, value |-> [tier |-> "gold"]]
      [] OTHER -> [threw |-> FALSE, value |-> EmptyObj]

\* JSON.parse(text), for the texts tried
JsonParse(text) ==
    CASE text = "{}" -> [threw |-> FALSE, value |-> EmptyObj]
      [] text = "{\"tier\":\"gold\"}" -> [threw |-> FALSE, value |-> [tier |-> "gold"]]
      [] OTHER -> [threw |-> TRUE, error |-> SyntaxError("Unexpected token in JSON")]

\* if (v) body[key] = v, for a text value
SetIfFilled(body, key, o, k) == IF TruthyAt(o, k) THEN With(body, key, o[k]) ELSE body

\* the body of contact create and contact update (lines 799-814, 824-842)
ContactBody(p) ==
    LET b1 == SetIfFilled(EmptyObj, "name", p, "name")
        b2 == SetIfFilled(b1, "email", p, "email")
        b3 == SetIfFilled(b2, "phone", p, "phone")
        af == p.additionalFields
        b4 == SetIfFilled(b3, "first_name", af, "firstName")
        b5 == SetIfFilled(b4, "last_name", af, "lastName")
        b6 == SetIfFilled(b5, "company", af, "company")
        b7 == SetIfFilled(b6, "notes", af, "notes")
    IN  IF Has(af, "customFields") /\ (af.customFields.t = "object" \/ JsTruthy(af.customFields))
        THEN IF af.customFields.t = "string"
             THEN LET parsed == JsonParse(af.customFields.v)
                  IN  IF parsed.threw THEN [threw |-> TRUE, error |-> parsed.error]
                      ELSE [threw |-> FALSE, body |-> With(b7, "custom_fields", parsed.value)]
             ELSE [threw |-> FALSE, body |-> With(b7, "custom_fields", af.customFields.o)]
        ELSE [threw |-> FALSE, body |-> b7]

\* String(v.value)
JsToString(x) ==
    CASE x.t = "number" -> NumberToString(x.v)
      [] x.t = "string" -> x.v
      [] OTHER          -> x.t

\* a content with one component for each variable
ComponentPerVariable(p) ==
    LET variables == IF Has(p.templateVariables, "variables")
                     THEN p.templateVariables.variables ELSE << >>
        template  == [name |-> p.templateName, language |-> [code |-> p.templateLanguage]]
    IN  [type |-> "template",
         template |->
            IF Len(variables) > 0
            THEN With(template, "components",
                      [n \in 1..Len(variables) |->
                         [type |-> "body",
                          parameters |-> << [type |-> "text",
                                             text |-> variables[n].value.v] >>]])
            ELSE template]

\* the content of a template message (lines 971-993)
TemplateContent(p) ==
    LET variables == IF Has(p.templateVariables, "variables")
                     THEN p.templateVariables.variables ELSE << >>
        template  == [name |-> p.templateName, language |-> [code |-> p.templateLanguage]]
    IN  [type |-> "template",
         template |->
            IF Len(variables) > 0
            THEN With(template, "components",
                      << [type |-> "body",
                          parameters |-> [n \in 1..Len(variables) |->
                                            [type |-> "text",
                                             text |-> JsToString(variables[n].value)]]] >>)
            ELSE template]

ThrowOf(e) == [kind |-> "throw", error |-> e]
RequestOf(method, endpoint, body, query) ==
    [kind |-> "request", method |-> method, endpoint |-> endpoint, body |-> body, query |-> query]
AllItemsOf(endpoint, query) == [kind |-> "allItems", endpoint |-> endpoint, query |-> query]

\* validate and, if valid, build the single request of an operation
Validated(fields, required, req) ==
    LET v == validateRequiredFields(fields, required)
    IN  IF v.threw THEN ThrowOf(v.error) ELSE req

\* a list request that asks for a full page whatever the limit
ListRequestOfFullPage(p, endpoint, query) ==
    IF p.returnAll THEN AllItemsOf(endpoint, query)
    ELSE RequestOf("GET", endpoint, EmptyObj, With(query, "page_size", pageSize))

\* a list request: all pages, or one page of `limit` items (lines 868-875)
ListRequest(p, endpoint, query) ==
    IF p.returnAll THEN AllItemsOf(endpoint, query)
    ELSE RequestOf("GET", endpoint, EmptyObj, With(query, "page_size", p.limit))

\* what execute() does for one item up to its first await: throw, issue one
\* request, or call sendSevenApiRequestAllItems (lines 770-1033)
Prepare(res, op, p) ==
    CASE <<res, op>> = <<"message", "send">> ->
           Validated([channelId |-> p.channelId, to |-> p.to, text |-> p.text],
                     <<"channelId", "to", "text">>,
                     RequestOf("POST", "/messages",
                               [channel_id |-> p.channelId, to |-> p.to, text |-> p.text],
                               EmptyObj))
      [] <<res, op>> = <<"contact", "create">> ->
           IF p.email = "" /\ p.phone = ""
           THEN ThrowOf(Error("Either email or phone is required to create a contact"))
           ELSE LET b == ContactBody(p)
                IN  IF b.threw THEN ThrowOf(b.error)
                    ELSE RequestOf("POST", "/contacts", b.body, EmptyObj)
      [] <<res, op>> = <<"contact", "update">> ->
           LET v == validateRequiredFields([contactId |-> p.contactId], <<"contactId">>)
               b == ContactBody(p)
           IN  IF v.threw THEN ThrowOf(v.error)
               ELSE IF b.threw THEN ThrowOf(b.error)
               ELSE RequestOf("PUT", "/contacts/" \o p.contactId, b.body, EmptyObj)
      [] <<res, op>> = <<"contact", "get">> ->
           Validated([contactId |-> p.contactId], <<"contactId">>,
                     RequestOf("GET", "/contacts/" \o p.contactId, EmptyObj, EmptyObj))
      [] <<res, op>> = <<"contact", "search">> ->
           LET q1 == SetIfFilled(EmptyObj, "search", p, "searchQuery")
               q2 == SetIfFilled(q1, "email", p, "email")
               q3 == SetIfFilled(q2, "phone", p, "phone")
           IN  ListRequest(p, "/contacts", q3)
      [] <<res, op>> = <<"contact", "addTag">> ->
           Validated([contactId |-> p.contactId, tagId |-> p.tagId],
                     <<"contactId", "tagId">>,
                     RequestOf("POST", "/contacts/" \o p.contactId \o "/tags/" \o p.tagId,
                               EmptyObj, EmptyObj))
      [] <<res, op>> = <<"conversation", "get">> ->
           Validated([conversationId |-> p.conversationId], <<"conversationId">>,
                     RequestOf("GET", "/conversations/" \o p.conversationId,
                               EmptyObj, EmptyObj))
      [] <<res, op>> = <<"conversation", "search">> ->
           LET q1 == SetIfFilled(EmptyObj, "contact_id", p.filters, "contactId")
               q2 == SetIfFilled(q1, "status", p.filters, "status")
               q3 == SetIfFilled(q2, "channel_type", p.filters, "channelType")
           IN  ListRequest(p, "/conversations", q3)
      [] <<res, op>> = <<"conversation", "close">> ->
           Validated([conversationId |-> p.conversationId], <<"conversationId">>,
                     RequestOf("PUT", "/conversations/" \o p.conversationId \o "/close",
                               EmptyObj, EmptyObj))
      [] <<res, op>> = <<"conversation", "assign">> ->
           Validated([conversationId |-> p.conversationId, userId |-> p.userId],
                     <<"conversationId", "userId">>,
                     RequestOf("PUT", "/conversations/" \o p.conversationId \o "/assign",
                               [user_id |-> p.userId], EmptyObj))
      [] <<res, op>> = <<"whatsappTemplate", "send">> ->
           Validated([channelId |-> p.waChannelId, to |-> p.recipientPhone,
                      templateName |-> p.templateName],
                     <<"channelId", "to", "templateName">>,
                     RequestOf("POST", "/messages",
                               [to |-> p.recipientPhone, channel_id |-> p.waChannelId,
                                content |-> TemplateContent(p)],
                               EmptyObj))
      [] OTHER ->
           \* whatsappTemplate list: the channel only extends the endpoint
           LET endpoint == IF p.waChannelId # ""
                           THEN "/whatsapp-templates?channel_id=" \o p.waChannelId
                           ELSE "/whatsapp-templates"
           IN  ListRequest(p, endpoint, EmptyObj)

\* the responses the API may give to the single request of an operation
Responses(res, op, p) ==
    CASE <<res, op>> \in {<<"message", "send">>, <<"whatsappTemplate", "send">>} ->
           {Obj(ServerMessage)}
      [] <<res, op>> \in {<<"contact", "create">>, <<"contact", "update">>,
                          <<"contact", "get">>} ->
           {Obj(ServerContact)}
      [] <<res, op>> = <<"contact", "addTag">> ->
           {Obj(EmptyObj)}
      [] <<res, op>> \in {<<"conversation", "get">>, <<"conversation", "close">>,
                          <<"conversation", "assign">>} ->
           {Obj(ServerConversation)}
      [] OTHER ->
           \* the first page of the size the request asks for, enveloped or as a
           \* bare array
           LET size  == Prepare(res, op, p).query.page_size
               items == PageItems(api, 1, size)
           IN  {Arr(items)} \cup PageResponses(api, 1, size)

\* (response as IDataObject).items as IDataObject[] || response
ItemsOrResponse(data) ==
    IF ~data.isArray /\ Has(data.o, "items") THEN Arr(data.o.items) ELSE data

\* what execute() makes of the data it awaited: responseData, or a throw
\* (`data` is the response of the single request, or Arr(allItems))
Finish(res, op, p, data) ==
    LET list == IF op \in {"search", "list"} /\ ~p.returnAll THEN ItemsOrResponse(data) ELSE data
        NotAFunction == [threw |-> TRUE, error |-> TypeError("responseData.map is not a function")]
        Ok(v) == [threw |-> FALSE, responseData |-> v]
    IN  CASE <<res, op>> \in {<<"message", "send">>} ->
               Ok(Obj(formatMessageResponse(data.o)))
          [] <<res, op>> \in {<<"contact", "create">>, <<"contact", "update">>,
                              <<"contact", "get">>} ->
               Ok(Obj(formatContactResponse(data.o)))
          [] <<res, op>> = <<"contact", "search">> ->
               IF list.isArray THEN Ok(Arr(Map(formatContactResponse, list.a)))
               ELSE NotAFunction
          [] <<res, op>> = <<"contact", "addTag">> ->
               Ok(Obj([success |-> TRUE, contactId |-> p.contactId, tagId |-> p.tagId,
                       message |-> "Tag added successfully"]))
          [] <<res, op>> \in {<<"conversation", "get">>, <<"conversation", "close">>,
                              <<"conversation", "assign">>} ->
               Ok(Obj(formatConversationResponse(data.o)))
          [] <<res, op>> = <<"conversation", "search">> ->
               IF list.isArray THEN Ok(Arr(Map(formatConversationResponse, list.a)))
               ELSE NotAFunction
          [] <<res, op>> = <<"whatsappTemplate", "send">> ->
               LET variables == IF Has(p.templateVariables, "variables")
                                THEN p.templateVariables.variables ELSE << >>
               IN  Ok(Obj(formatMessageResponse(data.o)
                          @@ [templateName |-> p.templateName,
                              templateLanguage |-> p.templateLanguage,
                              variablesSent |-> Len(variables)]))
          [] OTHER -> Ok(list)

\* the items pushed to returnData for responseData (lines 1036-1040)
ToOutputs(responseData) ==
    IF responseData.isArray
    THEN [n \in 1..Len(responseData.a) |-> [json |-> responseData.a[n]]]
    ELSE << [json |-> responseData.o] >>

-----------------------------------------------------------------------------
(* sendSevenApiRequestAllItems: one iteration of its loop, as a function *)

\* (responseData[itemsKey] as IDataObject[]) || []
ItemsOf(data) ==
    IF ~data.isArray /\ Has(data.o, "items") THEN data.o.items ELSE << >>

\* a page test that stops one page early
HasMoreBeforeLastPage(data, items) ==
    IF ~data.isArray /\ Has(data.o, "pagination")
    THEN data.o.pagination.page + 1 < data.o.pagination.total_pages
    ELSE Len(items) = pageSize

\* a page test that goes on after any page that is not empty
HasMoreAfterAnyItem(data, items) ==
    IF ~data.isArray /\ Has(data.o, "pagination")
    THEN data.o.pagination.page < data.o.pagination.total_pages
    ELSE Len(items) > 0

\* hasMore after a page response (lines 100-108)
HasMoreAfter(data, items) ==
    IF ~data.isArray /\ Has(data.o, "pagination")
    THEN data.o.pagination.page < data.o.pagination.total_pages
    ELSE Len(items) = pageSize

\* a safety limit that is tested one page late
SafetyLimitOnePageLate(p) == p > SafetyLimit + 1

\* if (page > 100) break
SafetyLimitReached(p) == p > SafetyLimit

\* whether the loop runs another iteration: the while condition, unless the
\* safety limit broke out of the loop
LoopContinues(more, p) == more /\ ~SafetyLimitReached(p)

\* a page query in which the caller's page and page_size win
PageQueryCallerFirst(query, p) ==
    LET withPage == IF Has(query, "page") THEN query ELSE With(query, "page", p)
    IN  IF Has(withPage, "page_size") THEN withPage ELSE With(withPage, "page_size", pageSize)

\* the query of a page request: { ...query, page, page_size: pageSize }
PageQuery(query, p) == With(With(query, "page", p), "page_size", pageSize)

-----------------------------------------------------------------------------
(* SendSeven.execute: the actions *)

NoRequest == [method |-> "none"]
NoItem == [index |-> -1, status |-> "none"]

\* the log's entry for a request: n is its place in the order of issue
LogEntry(idx, request) ==
    [n |-> Cardinality(requests) + 1, item |-> idx,
     method |-> request.method, url |-> request.url, cred |-> request.cred]

\* the request log after the call r of sendSevenApiRequest made for item idx
Logged(idx, r) == IF r.sent THEN requests \cup {LogEntry(idx, r.request)} ELSE requests
LastRequestAfter(r) == IF r.sent THEN r.request ELSE NoRequest

\* a catch block that rethrows whatever continueOnFail says
AlwaysRethrow(err) ==
    /\ returnData' = returnData
    /\ i' = i
    /\ pc' = "threw"
    /\ thrown' = err

\* a catch block that records the error whatever continueOnFail says
AlwaysContinue(err) ==
    /\ returnData' = Append(returnData, [json |-> [error |-> err.message]])
    /\ i' = i + 1
    /\ pc' = "loop"
    /\ thrown' = thrown

\* a catch block that hands on the items collected before the failure
KeepCollectedItems(err) ==
    IF continueOnFail
    THEN /\ returnData' = (returnData \o [n \in 1..Len(allItems) |-> [json |-> allItems[n]]])
                             \o << [json |-> [error |-> err.message]] >>
         /\ i' = i + 1
         /\ pc' = "loop"
         /\ thrown' = thrown
    ELSE /\ returnData' = returnData
         /\ i' = i
         /\ pc' = "threw"
         /\ thrown' = err

\* the catch block of execute (lines 1042-1048)
HandleFailure(err) ==
    IF continueOnFail
    THEN /\ returnData' = Append(returnData, [json |-> [error |-> err.message]])
         /\ i' = i + 1
         /\ pc' = "loop"
         /\ thrown' = thrown
    ELSE /\ returnData' = returnData
         /\ i' = i
         /\ pc' = "threw"
         /\ thrown' = err

\* a push that puts the outputs of an item in front of the earlier ones
PushInFront(responseData) ==
    /\ returnData' = ToOutputs(responseData) \o returnData
    /\ i' = i + 1
    /\ pc' = "loop"
    /\ thrown' = thrown

\* the end of the try block (lines 1035-1040) and the loop's i++
PushResponse(responseData) ==
    /\ returnData' = returnData \o ToOutputs(responseData)
    /\ i' = i + 1
    /\ pc' = "loop"
    /\ thrown' = thrown

\* the item is processed and made of `fin` what Finish made of the awaited data
Complete(p, fin) ==
    IF fin.threw
    THEN /\ cur' = [index |-> i, params |-> p, status |-> "failed", error |-> fin.error]
         /\ HandleFailure(fin.error)
    ELSE /\ cur' = [index |-> i, params |-> p, status |-> "ok", error |-> NoError]
         /\ PushResponse(fin.responseData)

\* an item whose parameters are rejected before any request
ExecuteItemRejected ==
    /\ node = "sendSeven" /\ pc = "loop" /\ i < nItems
    /\ \E p \in ParamSets(resource, operation) :
         LET prep == Prepare(resource, operation, p)
         IN  /\ prep.kind = "throw"
             /\ cur' = [index |-> i, params |-> p, status |-> "failed", error |-> prep.error]
             /\ HandleFailure(prep.error)
    /\ lastRequest' = NoRequest
    /\ UNCHANGED << requests, resource, operation, continueOnFail, nItems >>
    /\ UNCHANGED << envVars, pagingVars, triggerVars >>

\* an item that issues its single request and awaits the answer
ExecuteItemRequest ==
    /\ node = "sendSeven" /\ pc = "loop" /\ i < nItems
    /\ \E p \in ParamSets(resource, operation) :
         LET prep == Prepare(resource, operation, p)
         IN  /\ prep.kind = "request"
             /\ \E outcome \in Outcomes(Responses(resource, operation, p), TRUE) :
                  LET r == sendSevenApiRequest(prep.method, prep.endpoint, prep.body,
                                               prep.query, outcome)
                  IN  /\ requests' = Logged(i, r)
                      /\ lastRequest' = LastRequestAfter(r)
                      /\ IF r.threw
                         THEN /\ cur' = [index |-> i, params |-> p, status |-> "failed",
                                         error |-> r.error]
                              /\ HandleFailure(r.error)
                         ELSE Complete(p, Finish(resource, operation, p, r.data))
    /\ UNCHANGED << resource, operation, continueOnFail, nItems >>
    /\ UNCHANGED << envVars, pagingVars, triggerVars >>

\* an item that calls sendSevenApiRequestAllItems (lines 82-85)
ExecuteItemAllItems ==
    /\ node = "sendSeven" /\ pc = "loop" /\ i < nItems
    /\ \E p \in ParamSets(resource, operation) :
         /\ Prepare(resource, operation, p).kind = "allItems"
         /\ cur' = [index |-> i, params |-> p, status |-> "running", error |-> NoError]
    /\ pc' = "paging"
    /\ page' = 1
    /\ hasMore' = TRUE
    /\ allItems' = << >>
    /\ pageRequests' = 0
    /\ lastRequest' = NoRequest
    /\ UNCHANGED << requests, resource, operation, continueOnFail, nItems,
                    i, returnData, thrown >>
    /\ UNCHANGED << envVars, triggerVars >>

\* one iteration of the loop of sendSevenApiRequestAllItems (lines 87-116)
AllItemsPage ==
    /\ node = "sendSeven" /\ pc = "paging"
    /\ LET prep == Prepare(resource, operation, cur.params)
       IN  \E outcome \in Outcomes(PageResponses(api, page, pageSize), page <= MaxFailAt) :
             LET r == sendSevenApiRequest("GET", prep.endpoint, EmptyObj,
                                          PageQuery(prep.query, page), outcome)
             IN  /\ requests' = Logged(i, r)
                 /\ lastRequest' = LastRequestAfter(r)
                 /\ pageRequests' = IF r.sent THEN pageRequests + 1 ELSE pageRequests
                 /\ IF r.threw
                    THEN /\ cur' = [cur EXCEPT !.status = "failed", !.error = r.error]
                         /\ HandleFailure(r.error)
                         /\ UNCHANGED << page, hasMore, allItems >>
                    ELSE LET items == ItemsOf(r.data)
                             more  == HasMoreAfter(r.data, items)
                         IN  /\ allItems' = allItems \o items
                             /\ hasMore' = more
                             /\ page' = page + 1
                             /\ pc' = IF LoopContinues(more, page + 1)
                                      THEN "paging" ELSE "paged"
                             /\ UNCHANGED << cur, i, returnData, thrown >>
    /\ UNCHANGED << resource, operation, continueOnFail, nItems >>
    /\ UNCHANGED << envVars, triggerVars >>

\* sendSevenApiRequestAllItems returns allItems, and execute goes on with it
AllItemsReturn ==
    /\ node = "sendSeven" /\ pc = "paged"
    /\ Complete(cur.params, Finish(resource, operation, cur.params, Arr(allItems)))
    /\ page' = 1 /\ hasMore' = TRUE /\ allItems' = << >> /\ pageRequests' = 0
    /\ UNCHANGED << requests, lastRequest, resource, operation, continueOnFail, nItems >>
    /\ UNCHANGED << envVars, triggerVars >>

\* return [returnData]
ExecuteReturn ==
    /\ node = "sendSeven" /\ pc = "loop" /\ i = nItems
    /\ pc' = "done"
    /\ UNCHANGED << requests, lastRequest, executeVars, envVars, pagingVars, triggerVars >>

-----------------------------------------------------------------------------
(* SendSevenTrigger: the node, the remote subscriptions and the deliveries *)

\* export const WEBHOOK_EVENTS (the values)
WEBHOOK_EVENTS ==
    { "message.received", "message.sent", "message.status_updated",
      "conversation.created", "conversation.closed",
      "contact.created", "contact.updated",
      "ticket.created", "ticket.closed", "campaign.sent" }

\* this.getNodeWebhookUrl('default') and this.getWorkflow().id
webhookUrl == "https://n8n.example.com/webhook/1f0c"
workflowId == "wf_1"

\* an event other than e
OtherEvent(e) == IF e = "message.received" THEN "contact.created" ELSE "message.received"

\* subscriptions the API may hold before the node's first hook call
ForeignHook(e) == [id |-> "wh_a", url |-> "https://other.example.com/hook",
                   subscribed_events |-> {e}]
SiblingHook(e) == [id |-> "wh_b", url |-> webhookUrl, subscribed_events |-> {OtherEvent(e)}]
LegacyHook     == [id |-> "wh_c", url |-> webhookUrl]
OwnHook(e)     == [id |-> "wh_d", url |-> webhookUrl, subscribed_events |-> {e, OtherEvent(e)}]

InitialRemotes(e) ==
    { << >>, << ForeignHook(e), SiblingHook(e) >>, << LegacyHook, OwnHook(e) >> }

\* the id the API gives the subscription created by the n-th call
NewHookId(n) == "wh_" \o NumberToString(n)

\* the responses of POST /webhooks for a subscription created with id `id`
CreateResponses(id) ==
    { Obj([webhook_id |-> id, secret_key |-> "s3cr3t"]),
      Obj([id |-> id, secret_key |-> "s3cr3t"]),
      Obj([id |-> id]) }

\* the responses of GET /webhooks
ListResponses(hooks) == { Obj([items |-> hooks]), Arr(hooks) }

\* (response as IDataObject).items as IDataObject[] || response as IDataObject[]
WebhooksOf(data) == IF ~data.isArray /\ Has(data.o, "items") THEN data.o.items ELSE data.a

\* a search that takes any subscription for this URL, whatever its events
FindByUrl(hooks, url, e) ==
    LET matching == { n \in 1..Len(hooks) : hooks[n].url = url }
    IN  IF matching = {} THEN 0 ELSE CHOOSE n \in matching : \A m \in matching : n <= m

\* webhooks.find(...): the index of the first subscription for this URL and event, 0 if none
FindExisting(hooks, url, e) ==
    LET matching == { n \in 1..Len(hooks) :
                        /\ hooks[n].url = url
                        /\ Has(hooks[n], "subscribed_events")
                        /\ e \in hooks[n].subscribed_events }
    IN  IF matching = {} THEN 0 ELSE CHOOSE n \in matching : \A m \in matching : n <= m

\* the remote subscriptions without the one with id `id`
RemoveHook(hooks, id) == SelectSeq(hooks, LAMBDA h : h.id # id)
HasHook(hooks, id) == \E n \in 1..Len(hooks) : hooks[n].id = id

\* a test that takes no failure of the DELETE request for a failure
EveryFailureIsFine(err) == FALSE

\* (err.httpCode || err.statusCode) !== 404, for the error delete() caught
IsNot404(err) ==
    LET httpCode   == IF Has(err, "httpCode") THEN err.httpCode ELSE JsUndefined
        statusCode == IF Has(err, "statusCode") THEN err.statusCode ELSE JsUndefined
    IN  ~StrictEquals(JsOr(httpCode, statusCode), JsNumber(NotFound))

\* what the HTTP layer rejects DELETE /webhooks/<id> with when the API no longer
\* holds the subscription
Gone == CHOOSE e \in RawErrors : Has(e, "status") /\ e.status = NotFound

TriggerIdle == node = "sendSevenTrigger" /\ calls < MaxCalls

\* webhookMethods.default.checkExists (lines 1165-1192)
CheckExists ==
    /\ TriggerIdle
    /\ \E outcome \in Outcomes(ListResponses(remote), TRUE) :
         LET r == sendSevenApiRequest("GET", "/webhooks", EmptyObj, EmptyObj, outcome)
             found == IF r.threw THEN 0 ELSE FindExisting(WebhooksOf(r.data), webhookUrl, event)
         IN  /\ requests' = Logged(-1, r)
             /\ lastRequest' = LastRequestAfter(r)
             /\ staticData' = IF found # 0
                              THEN With(staticData, "webhookId", WebhooksOf(r.data)[found].id)
                              ELSE staticData
             /\ lastCall' = [op |-> "checkExists", result |-> found # 0, threw |-> r.threw]
    /\ calls' = calls + 1
    /\ UNCHANGED << event, remote, executeVars, pagingVars, envVars, pc >>

\* a create() that stores the webhook id and drops the secret
CreateWithoutSecret ==
    /\ TriggerIdle
    /\ LET body == [name |-> "n8n Workflow " \o workflowId \o ": " \o event,
                    url |-> webhookUrl,
                    subscribed_events |-> << event >>]
           id   == NewHookId(calls + 1)
       IN  \E outcome \in Outcomes(CreateResponses(id), TRUE) :
             LET r == sendSevenApiRequest("POST", "/webhooks", body, EmptyObj, outcome)
             IN  /\ requests' = Logged(-1, r)
                 /\ lastRequest' = LastRequestAfter(r)
                 /\ IF r.threw
                    THEN /\ staticData' = staticData
                         /\ remote' = remote
                         /\ lastCall' = [op |-> "create", result |-> FALSE, threw |-> TRUE]
                    ELSE /\ staticData' = With(staticData, "webhookId", id)
                         /\ remote' = Append(remote, [id |-> id, url |-> webhookUrl,
                                                      subscribed_events |-> {event}])
                         /\ lastCall' = [op |-> "create", result |-> TRUE, threw |-> FALSE]
    /\ calls' = calls + 1
    /\ UNCHANGED << event, executeVars, pagingVars, envVars, pc >>

\* webhookMethods.default.create (lines 1197-1221)
Create ==
    /\ TriggerIdle
    /\ LET body == [name |-> "n8n Workflow " \o workflowId \o ": " \o event,
                    url |-> webhookUrl,
                    subscribed_events |-> << event >>]
           id   == NewHookId(calls + 1)
       IN  \E outcome \in Outcomes(CreateResponses(id), TRUE) :
             LET r == sendSevenApiRequest("POST", "/webhooks", body, EmptyObj, outcome)
             IN  /\ requests' = Logged(-1, r)
                 /\ lastRequest' = LastRequestAfter(r)
                 /\ IF r.threw
                    THEN /\ staticData' = staticData
                         /\ remote' = remote
                         /\ lastCall' = [op |-> "create", result |-> FALSE, threw |-> TRUE]
                    ELSE /\ staticData' =
                              With(With(staticData, "webhookId",
                                        IF TruthyAt(r.data.o, "webhook_id")
                                        THEN r.data.o.webhook_id ELSE Get(r.data.o, "id")),
                                   "secretKey", Get(r.data.o, "secret_key"))
                         /\ remote' = Append(remote, [id |-> id, url |-> webhookUrl,
                                                      subscribed_events |-> {event}])
                         /\ lastCall' = [op |-> "create", result |-> TRUE, threw |-> FALSE]
    /\ calls' = calls + 1
    /\ UNCHANGED << event, executeVars, pagingVars, envVars, pc >>

\* a delete() that sends its request also when no webhookId is stored
DeleteAnyway ==
    /\ TriggerIdle
    /\ ~TruthyAt(staticData, "webhookId")
    /\ LET r == sendSevenApiRequest("DELETE", "/webhooks/undefined", EmptyObj, EmptyObj,
                                    [ok |-> TRUE, data |-> Obj(EmptyObj)])
       IN  /\ requests' = Logged(-1, r)
           /\ lastRequest' = LastRequestAfter(r)
    /\ lastCall' = [op |-> "delete", result |-> TRUE, threw |-> FALSE, target |-> Undefined]
    /\ calls' = calls + 1
    /\ UNCHANGED << staticData, event, remote, executeVars, pagingVars, envVars, pc >>

\* delete() without a stored webhookId (lines 1227-1233)
DeleteNothing ==
    /\ TriggerIdle
    /\ ~TruthyAt(staticData, "webhookId")
    /\ lastCall' = [op |-> "delete", result |-> TRUE, threw |-> FALSE, target |-> Undefined]
    /\ lastRequest' = NoRequest
    /\ calls' = calls + 1
    /\ UNCHANGED << requests, staticData, event, remote, executeVars, pagingVars, envVars, pc >>

\* a clean-up that forgets the webhook id and keeps the secret
OnlyWebhookIdRemoved(data) == Without(data, "webhookId")

\* a clean-up that also leaves a mark in the static data
CleanedUpAndMarked(data) ==
    With(Without(Without(data, "webhookId"), "secretKey"), "removed", "true")

\* the static data after delete()'s clean-up (lines 1245-1247)
CleanedUp(data) == Without(Without(data, "webhookId"), "secretKey")

\* webhookMethods.default.delete with a stored webhookId (lines 1235-1249)
Delete ==
    /\ TriggerIdle
    /\ TruthyAt(staticData, "webhookId")
    /\ LET webhookId == staticData.webhookId
           answers   == IF HasHook(remote, webhookId)
                        THEN Outcomes({Obj(EmptyObj)}, TRUE) \ {[ok |-> FALSE, error |-> Gone]}
                        ELSE Outcomes({}, TRUE)
       IN  \E outcome \in answers :
             LET r == sendSevenApiRequest("DELETE", "/webhooks/" \o webhookId,
                                          EmptyObj, EmptyObj, outcome)
                 failed == r.threw /\ IsNot404(r.error)
             IN  /\ requests' = Logged(-1, r)
                 /\ lastRequest' = LastRequestAfter(r)
                 /\ remote' = IF r.sent /\ outcome.ok THEN RemoveHook(remote, webhookId)
                              ELSE remote
                 /\ staticData' = IF failed THEN staticData ELSE CleanedUp(staticData)
                 /\ lastCall' = [op |-> "delete", result |-> ~failed, threw |-> r.threw,
                                 target |-> webhookId,
                                 error |-> IF r.threw THEN r.error ELSE NoError,
                                 raw |-> IF outcome.ok THEN NoError ELSE outcome.error]
    /\ calls' = calls + 1
    /\ UNCHANGED << event, executeVars, pagingVars, envVars, pc >>

\* the subscription is removed at the API by someone else
RemoteRemoval ==
    /\ node = "sendSevenTrigger"
    /\ \E n \in 1..Len(remote) : remote' = RemoveHook(remote, remote[n].id)
    /\ UNCHANGED << requests, lastRequest, staticData, event, calls, lastCall,
                    executeVars, pagingVars, envVars, pc >>

-----------------------------------------------------------------------------
(* SendSevenTrigger.webhook: the deliveries and their formatting *)

\* the JSON null of a formatted field
NullValue == [isNull |-> TRUE]

ServerTicket ==
    [id |-> "tk_1", status |-> "open", summary |-> "Refund", conversation_id |-> "conv_1"]
ServerCampaign ==
    [id |-> "cmp_1", name |-> "Autumn", type |-> "broadcast", status |-> "sent"]

\* the `data` members of the deliveries: every resource nested under its key,
\* the resource itself as `data`, resources without an id, and an empty object
DeliveryData ==
    { [message |-> ServerMessage, contact |-> ServerContact,
       conversation |-> ServerConversation, ticket |-> ServerTicket,
       campaign |-> ServerCampaign],
      [id |-> "res_2", status |-> "open", name |-> "Flat"],
      [message |-> [content |-> "hi", type |-> "text"], contact |-> [name |-> "Ann"],
       conversation |-> [status |-> "open"]],
      EmptyObj }

\* the request bodies SendSeven may post for the configured event e: the event
\* itself, another event, an event the node does not know, or no event member
DeliveryBodies(e) ==
    { [event |-> e, timestamp |-> "2024-05-01T10:00:00Z", event_id |-> "evt_1", data |-> d]
        : d \in DeliveryData }
    \cup { [event |-> e, timestamp |-> "2024-05-01T10:00:00Z", data |-> d]
        : d \in DeliveryData }
    \cup { [event |-> e, timestamp |-> "2024-05-01T10:00:00Z", event_id |-> "evt_1"] }
    \cup { [event |-> x, timestamp |-> "2024-05-01T10:00:00Z", event_id |-> "evt_1",
            data |-> [id |-> "res_2", status |-> "open", name |-> "Flat"]]
        : x \in {OtherEvent(e), "order.shipped"} }
    \cup { [timestamp |-> "2024-05-01T10:00:00Z", event_id |-> "evt_1",
            data |-> [id |-> "res_2", status |-> "open", name |-> "Flat"]] }

\* req.headers: with or without x-sendseven-signature
DeliveryHeaders ==
    { EmptyObj,
      "x-sendseven-signature" :> "sha256=9f2c",
      "x-sendseven-signature" :> "sha256=0000" }

\* an id that prefers the delivery's event_id to the resource's id
EventIdFirst(o, body) == IF TruthyAt(body, "event_id") THEN body.event_id ELSE Get(o, "id")

\* o.id || body.event_id
IdOr(o, body) == IF TruthyAt(o, "id") THEN o.id ELSE Get(body, "event_id")

\* contact.id ? formatContactResponse(contact) : null
ContactOrNull(contact) ==
    IF TruthyAt(contact, "id") THEN formatContactResponse(contact) ELSE NullValue

\* conversation.id ? formatConversationResponse(conversation) : null
ConversationOrNull(conversation) ==
    IF TruthyAt(conversation, "id") THEN formatConversationResponse(conversation)
    ELSE NullValue

\* the switch on receivedEvent (lines 1283-1388)
FormattedData(receivedEvent, body) ==
    LET data == ObjOr(body, "data", EmptyObj)
        contact0 == ObjOr(data, "contact", EmptyObj)
        conversation0 == ObjOr(data, "conversation", EmptyObj)
    IN  IF receivedEvent \in {"message.received", "message.sent", "message.status_updated"}
        THEN LET message == ObjOr(data, "message", EmptyObj)
             IN  [id |-> IdOr(message, body),
                  event |-> receivedEvent,
                  message |-> formatMessageResponse(message),
                  contact |-> ContactOrNull(contact0),
                  conversation |-> ConversationOrNull(conversation0),
                  timestamp |-> Get(body, "timestamp")]
        ELSE IF receivedEvent \in {"conversation.created", "conversation.closed"}
        THEN LET conversation == ObjOr(data, "conversation", data)
             IN  [id |-> IdOr(conversation, body),
                  event |-> receivedEvent,
                  conversation |-> formatConversationResponse(conversation),
                  contact |-> ContactOrNull(contact0),
                  timestamp |-> Get(body, "timestamp")]
        ELSE IF receivedEvent \in {"contact.created", "contact.updated"}
        THEN LET contact == ObjOr(data, "contact", data)
             IN  [id |-> IdOr(contact, body),
                  event |-> receivedEvent,
                  contact |-> formatContactResponse(contact),
                  timestamp |-> Get(body, "timestamp")]
        ELSE IF receivedEvent \in {"ticket.created", "ticket.closed"}
        THEN LET ticket == ObjOr(data, "ticket", data)
             IN  [id |-> IdOr(ticket, body),
                  event |-> receivedEvent,
                  ticket |-> [id |-> Get(ticket, "id"),
                              status |-> Get(ticket, "status"),
                              summary |-> Get(ticket, "summary"),
                              conversationId |->
                                  IF TruthyAt(ticket, "conversation_id")
                                  THEN ticket.conversation_id
                                  ELSE Get(conversation0, "id"),
                              assignedToUserId |-> Get(ticket, "assigned_to_user_id"),
                              createdAt |-> Get(ticket, "created_at"),
                              closedAt |-> Get(ticket, "closed_at")],
                  conversation |-> ConversationOrNull(conversation0),
                  contact |-> ContactOrNull(contact0),
                  timestamp |-> Get(body, "timestamp")]
        ELSE IF receivedEvent = "campaign.sent"
        THEN LET campaign == ObjOr(data, "campaign", data)
             IN  [id |-> IdOr(campaign, body),
                  event |-> receivedEvent,
                  campaign |-> [id |-> Get(campaign, "id"),
                                name |-> Get(campaign, "name"),
                                type |-> Get(campaign, "type"),
                                status |-> Get(campaign, "status"),
                                sentCount |-> Get(campaign, "sent_count"),
                                deliveredCount |-> Get(campaign, "delivered_count"),
                                failedCount |-> Get(campaign, "failed_count"),
                                sentAt |-> Get(campaign, "sent_at")],
                  timestamp |-> Get(body, "timestamp")]
        ELSE [id |-> Get(body, "event_id"),
              event |-> receivedEvent,
              data |-> data,
              timestamp |-> Get(body, "timestamp"),
              raw |-> body]

\* const receivedEvent = body.event as string (undefined when the member is absent)
ReceivedEvent(body) == IF Has(body, "event") THEN JsString(body.event) ELSE JsUndefined

\* a mismatch test that lets a delivery without an event member pass
EventMismatchIfPresent(body, configured) ==
    Has(body, "event") /\ body.event # configured

\* receivedEvent !== event
EventMismatch(body, configured) ==
    ~StrictEquals(ReceivedEvent(body), JsString(configured))

\* a webhook() that ignores a delivery without signature once a secret is stored
RejectUnsigned(headers, body, configured, data) ==
    IF EventMismatch(body, configured)
       \/ (TruthyAt(data, "secretKey") /\ ~Has(headers, "x-sendseven-signature"))
    THEN [noWebhookResponse |-> TRUE]
    ELSE [workflowData |-> << << [json |-> FormattedData(Get(body, "event"), body)] >> >>]

\* what webhook() returns for the request (headers, body)
WebhookResponse(headers, body, configured, data) ==
    LET \* read by the signature block (lines 1271-1280), which verifies nothing
        secretKey == Get(data, "secretKey")
        signature == Get(headers, "x-sendseven-signature")
    IN
    IF EventMismatch(body, configured)
    THEN [noWebhookResponse |-> TRUE]
    ELSE [workflowData |-> << << [json |-> FormattedData(Get(body, "event"), body)] >> >>]

\* SendSevenTrigger.webhook (lines 1257-1395)
Webhook ==
    /\ TriggerIdle
    /\ \E body \in DeliveryBodies(event), headers \in DeliveryHeaders :
         lastCall' = [op |-> "webhook", body |-> body, headers |-> headers,
                      result |-> WebhookResponse(headers, body, event, staticData)]
    /\ lastRequest' = NoRequest
    /\ calls' = calls + 1
    /\ UNCHANGED << requests, staticData, event, remote,
                    executeVars, pagingVars, envVars, pc >>

-----------------------------------------------------------------------------
(* The initial states *)

InitExecute ==
    /\ node = "sendSeven"
    /\ \E ro \in Operations : resource = ro[1] /\ operation = ro[2]
    /\ api \in IF <<resource, operation>> \in ListOperations THEN ApiConfigs ELSE {DefaultApi}
    /\ continueOnFail \in BOOLEAN
    \* a call of sendSevenApiRequestAllItems that can reach the safety limit is
    \* made by a run of one item
    /\ nItems \in IF api \in LargeApiConfigs \cup RunawayApiConfigs THEN {1} ELSE 1..MaxItems
    \* every credential setup is tried by the runs of one item on a small collection
    /\ authentication \in IF nItems = 1 /\ api \in SmallApiConfigs
                          THEN {"apiKey", "oAuth2"} ELSE {"apiKey"}
    /\ oauthReadable \in IF nItems = 1 /\ api \in SmallApiConfigs THEN BOOLEAN ELSE {FALSE}
    /\ i = 0
    /\ returnData = << >>
    /\ pc = "loop"
    /\ thrown = NoError
    /\ cur = NoItem
    /\ requests = {}
    /\ lastRequest = NoRequest
    /\ page = 1 /\ hasMore = TRUE /\ allItems = << >> /\ pageRequests = 0
    /\ event = "message.received"
    /\ staticData = EmptyObj
    /\ remote = << >>
    /\ calls = 0
    /\ lastCall = [op |-> "none"]

InitTrigger ==
    /\ node = "sendSevenTrigger"
    /\ event \in WEBHOOK_EVENTS
    \* the node is tried with every event on an account without subscriptions,
    \* and with one event on every account and every credential setup
    /\ remote \in IF event = "message.received" THEN InitialRemotes(event) ELSE {<< >>}
    /\ authentication \in IF event = "message.received" /\ remote = << >>
                          THEN {"apiKey", "oAuth2"} ELSE {"apiKey"}
    /\ oauthReadable \in IF event = "message.received" /\ remote = << >>
                         THEN BOOLEAN ELSE {FALSE}
    /\ api = DefaultApi
    /\ staticData = EmptyObj
    /\ calls = 0
    /\ lastCall = [op |-> "none"]
    /\ requests = {}
    /\ lastRequest = NoRequest
    /\ resource = "none" /\ operation = "none"
    /\ continueOnFail = FALSE
    /\ nItems = 0 /\ i = 0
    /\ returnData = << >>
    /\ pc = "hooks"
    /\ thrown = NoError
    /\ cur = NoItem
    /\ page = 1 /\ hasMore = TRUE /\ allItems = << >> /\ pageRequests = 0

Init == InitExecute \/ InitTrigger

Next ==
    \/ ExecuteItemRejected
    \/ ExecuteItemRequest
    \/ ExecuteItemAllItems
    \/ AllItemsPage
    \/ AllItemsReturn
    \/ ExecuteReturn
    \/ CheckExists
    \/ Create
    \/ DeleteNothing
    \/ Delete
    \/ RemoteRemoval
    \/ Webhook

Spec == Init /\ [][Next]_vars

\* the action node alone
NextExecute ==
    \/ ExecuteItemRejected
    \/ ExecuteItemRequest
    \/ ExecuteItemAllItems
    \/ AllItemsPage
    \/ AllItemsReturn
    \/ ExecuteReturn

SpecExecute == InitExecute /\ [][NextExecute]_vars

\* the trigger node alone
NextTrigger ==
    \/ CheckExists
    \/ Create
    \/ DeleteNothing
    \/ Delete
    \/ RemoteRemoval
    \/ Webhook

SpecTrigger == InitTrigger /\ [][NextTrigger]_vars

\* the lifecycle hooks as the host calls them on activation: create() only
\* directly after a checkExists() that returned false
CreateAfterCheck ==
    /\ lastCall.op = "checkExists"
    /\ ~lastCall.result
    /\ Create

NextLifecycle ==
    \/ CheckExists
    \/ CreateAfterCheck
    \/ DeleteNothing
    \/ Delete
    \/ RemoteRemoval

SpecLifecycle == InitTrigger /\ [][NextLifecycle]_vars

\* sendSevenApiRequest alone: one call, answered with a response or with any
\* error the HTTP layer can reject with
OptionalText(v) == { [has |-> FALSE] } \cup { [has |-> TRUE, text |-> t] : t \in {"", v} }

\* response bodies: detail and message each absent, empty or filled
ErrorBodies ==
    { (IF d.has THEN [detail |-> d.text] ELSE EmptyObj)
      @@ (IF m.has THEN [message |-> m.text] ELSE EmptyObj)
      : d \in OptionalText("Not found"), m \in OptionalText("Internal error") }

\* raw errors: with or without a status, a message of their own, a response,
\* and a body in the response
ErrorShapes ==
    { [name |-> "HttpError"]
      @@ (IF st.has THEN [status |-> NotFound] ELSE EmptyObj)
      @@ (IF msg.has THEN [message |-> msg.text] ELSE EmptyObj)
      @@ rsp
      : st \in { [has |-> FALSE], [has |-> TRUE] },
        msg \in OptionalText("Request failed"),
        rsp \in {EmptyObj, [response |-> EmptyObj]}
                \cup { [response |-> [body |-> b]] : b \in ErrorBodies } }

InitRequest ==
    /\ node = "request"
    /\ authentication = "apiKey"
    /\ oauthReadable \in BOOLEAN
    /\ lastCall \in { [op |-> "pending", outcome |-> o] :
                       o \in { [ok |-> TRUE, data |-> Obj(ServerContact)] }
                             \cup { [ok |-> FALSE, error |-> e] : e \in ErrorShapes } }
    /\ api = DefaultApi
    /\ event = "message.received"
    /\ remote = << >>
    /\ staticData = EmptyObj
    /\ calls = 0
    /\ requests = {}
    /\ lastRequest = NoRequest
    /\ resource = "none" /\ operation = "none"
    /\ continueOnFail = FALSE
    /\ nItems = 0 /\ i = 0
    /\ returnData = << >>
    /\ pc = "request"
    /\ thrown = NoError
    /\ cur = NoItem
    /\ page = 1 /\ hasMore = TRUE /\ allItems = << >> /\ pageRequests = 0

\* await sendSevenApiRequest.call(this, 'GET', '/contacts/ct_1')
RequestAnswered ==
    /\ node = "request"
    /\ lastCall.op = "pending"
    /\ LET r == sendSevenApiRequest("GET", "/contacts/ct_1", EmptyObj, EmptyObj,
                                    lastCall.outcome)
       IN  /\ lastCall' = [op |-> "request", outcome |-> lastCall.outcome, result |-> r]
           /\ requests' = Logged(-1, r)
           /\ lastRequest' = LastRequestAfter(r)
    /\ UNCHANGED << staticData, event, remote, calls, executeVars, pagingVars, envVars, pc >>

SpecRequest == InitRequest /\ [][RequestAnswered]_vars

\* the calls of sendSevenApiRequestAllItems that execute makes
InitAllItems ==
    /\ InitExecute
    /\ <<resource, operation>> \in ListOperations

NextAllItems ==
    \/ ExecuteItemAllItems
    \/ AllItemsPage
    \/ AllItemsReturn
    \/ ExecuteReturn

SpecAllItems == InitAllItems /\ [][NextAllItems]_vars

-----------------------------------------------------------------------------
(* Properties of sendSevenApiRequestAllItems *)

\* C1: a call of sendSevenApiRequestAllItems never issues more than 100 page
\* requests, whatever the pagination envelopes of the responses say (envelopes
\* that always report more pages, full pages without an envelope).
C1_AtMostHundredPageRequests == pageRequests <= SafetyLimit

\* a call that was stopped by the safety limit: the API always reports one more
\* page, and the call returns after its 100th page request
C1_StoppedBySafetyLimit ==
    /\ pc = "paged"
    /\ api.env = "always_more"
    /\ pageRequests = SafetyLimit
    /\ hasMore

\* the items of the first n pages of the collection of API a
FirstPages(a, n) == ItemRange(1, Min(TotalItems(a), n * pageSize))

\* C2 as stated: with an honest page/total_pages envelope the call returns the
\* items of all N pages, N x 100 less the shortfall of the final page.
C2_ReturnsAllPages ==
    (pc = "paged" /\ api.env = "honest") => allItems = FirstPages(api, api.pages)

\* C2, amended: with an honest page/total_pages envelope the call returns, in
\* order, the items of the first min(N, 100) pages: all items of all N pages
\* when N <= 100, and the first 10,000 items when N > 100.
C2_ReturnsPagesUpToSafetyLimit ==
    (pc = "paged" /\ api.env = "honest")
        => allItems = FirstPages(api, Min(api.pages, SafetyLimit))

\* a call that returned every item of a collection of 100 pages with a short
\* final page
C2_HundredPagesReturned ==
    /\ pc = "paged"
    /\ api.env = "honest"
    /\ api.pages = SafetyLimit
    /\ api.last < pageSize
    /\ Len(allItems) = TotalItems(api)
    /\ pageRequests = SafetyLimit

-----------------------------------------------------------------------------
(* Properties of SendSevenTrigger *)

\* the last call was webhook(), for a delivery whose body.event is not the
\* configured event or is missing
MismatchedDelivery ==
    /\ lastCall.op = "webhook"
    /\ (~Has(lastCall.body, "event") \/ lastCall.body.event # event)

\* C3: when the delivery's body.event differs from the node's configured event,
\* or the body has no event member, webhook() returns no workflowData: the
\* delivery produces no workflow output.
C3_MismatchGivesNoWorkflowData ==
    MismatchedDelivery => ~Has(lastCall.result, "workflowData")

\* a delivery without an event member was answered without workflow data
C3_DeliveryWithoutEventIgnored ==
    /\ lastCall.op = "webhook"
    /\ ~Has(lastCall.body, "event")
    /\ lastCall.result = [noWebhookResponse |-> TRUE]

\* the step is a call of delete() whose DELETE request was sent and failed
DeleteFailedStep ==
    /\ calls' = calls + 1
    /\ lastCall'.op = "delete"
    /\ lastCall'.threw

\* the HTTP layer answered the DELETE request of call c with status 404
AnsweredNotFound(c) == Has(c.raw, "status") /\ c.raw.status = NotFound

\* C4 as stated: when the DELETE request for the stored webhookId fails with
\* HTTP 404, delete() returns true and removes webhookId and secretKey from
\* the workflow static data.
C4_NotFoundIsCleanedUp ==
    [][ (DeleteFailedStep /\ AnsweredNotFound(lastCall'))
          => /\ lastCall'.result = TRUE
             /\ ~Has(staticData', "webhookId")
             /\ ~Has(staticData', "secretKey") ]_vars

\* delete() was answered 404 for the stored webhookId, returned false and kept
\* the webhookId
C4_NotFoundReportedAsFailure ==
    /\ lastCall.op = "delete"
    /\ lastCall.threw
    /\ AnsweredNotFound(lastCall)
    /\ lastCall.error.httpCode = JsString("404")
    /\ lastCall.result = FALSE
    /\ Has(staticData, "webhookId")
    /\ staticData.webhookId = lastCall.target

\* C5: when the DELETE request fails with an error other than 404, delete()
\* returns false and leaves webhookId and secretKey in the static data as they
\* were, so that a later delete() targets the same webhook id.
C5_OtherFailureKeepsStaticData ==
    [][ (DeleteFailedStep /\ ~AnsweredNotFound(lastCall'))
          => /\ lastCall'.result = FALSE
             /\ staticData' = staticData
             /\ staticData'.webhookId = lastCall'.target ]_vars

\* delete() failed with HTTP 500, returned false and kept webhookId and secretKey
C5_ServerErrorKeepsStaticData ==
    /\ lastCall.op = "delete"
    /\ lastCall.threw
    /\ Has(lastCall.raw, "status") /\ lastCall.raw.status # NotFound
    /\ lastCall.result = FALSE
    /\ Has(staticData, "secretKey")
    /\ staticData.webhookId = lastCall.target

-----------------------------------------------------------------------------
(* Properties of SendSeven.execute *)

\* the step in which the processing of an input item fails
ItemFailsStep == cur' # cur /\ cur'.status = "failed"

\* C6: with continueOnFail set, an input item whose processing fails adds exactly
\* one output item, whose error field is the error's message; the outputs of
\* the items before it stay as they are and the loop goes on with the next item.
C6_FailureBecomesOneErrorItem ==
    [][ (continueOnFail /\ ItemFailsStep)
          => /\ returnData' = Append(returnData, [json |-> [error |-> cur'.error.message]])
             /\ i' = cur'.index + 1
             /\ pc' = "loop"
             /\ thrown' = NoError ]_vars

\* a run of two items that returned: the first failed and gave one error item,
\* the second was processed after it and succeeded with one output item
C6_SecondItemProcessedAfterFailure ==
    /\ continueOnFail
    /\ pc = "done"
    /\ nItems >= 2
    /\ cur.index = 1 /\ cur.status = "ok"
    /\ Len(returnData) = 2
    /\ DOMAIN returnData[1].json = {"error"}
    /\ DOMAIN returnData[2].json # {"error"}

\* C7: without continueOnFail, the first input item whose processing fails makes
\* execute() throw that error: nothing is returned, no later item is processed
\* and no HTTP request is issued for a later item.
C7_FirstFailureIsThrown ==
    [][ /\ (~continueOnFail /\ ItemFailsStep)
            => /\ pc' = "threw"
               /\ thrown' = cur'.error
               /\ returnData' = returnData
               /\ \A q \in requests' : q.item <= cur'.index
        /\ pc = "threw" => UNCHANGED vars ]_vars

\* execute() threw the error of the first of several items after the item's
\* request failed
C7_ThrownAtFirstItem ==
    /\ ~continueOnFail
    /\ pc = "threw"
    /\ nItems >= 2
    /\ cur.index = 0
    /\ thrown = cur.error
    /\ thrown.name = "NodeApiError"
    /\ \A q \in requests : q.item = 0

\* a parameter the operation requires is empty in the parameters p of an item
RequiredParameterEmpty(res, op, p) ==
    CASE <<res, op>> = <<"message", "send">> -> "" \in {p.channelId, p.to, p.text}
      [] <<res, op>> = <<"contact", "create">> -> p.email = "" /\ p.phone = ""
      [] <<res, op>> \in {<<"contact", "get">>, <<"contact", "update">>} -> p.contactId = ""
      [] <<res, op>> = <<"contact", "addTag">> -> "" \in {p.contactId, p.tagId}
      [] <<res, op>> \in {<<"conversation", "get">>, <<"conversation", "close">>} ->
           p.conversationId = ""
      [] <<res, op>> = <<"conversation", "assign">> -> "" \in {p.conversationId, p.userId}
      [] <<res, op>> = <<"whatsappTemplate", "send">> ->
           "" \in {p.waChannelId, p.recipientPhone, p.templateName}
      [] <<res, op>> = <<"whatsappTemplate", "list">> -> p.waChannelId = ""
      [] OTHER -> FALSE

\* C8 as stated: when a parameter the operation requires is empty for an item,
\* the item is rejected with an error and no HTTP request is issued for it
\* (the required parameters of the claim, waChannelId of template list included).
C8_EmptyRequiredParameterRejected ==
    (cur.status # "none" /\ RequiredParameterEmpty(resource, operation, cur.params))
        => /\ cur.status = "failed"
           /\ \A q \in requests : q.item # cur.index

\* a template list item with an empty waChannelId was processed with success
\* after GET /whatsapp-templates was issued for it
C8_TemplateListWithoutChannel ==
    /\ <<resource, operation>> = <<"whatsappTemplate", "list">>
    /\ cur.status = "ok"
    /\ cur.params.waChannelId = ""
    /\ lastRequest # NoRequest
    /\ lastRequest.url = API_BASE_URL \o "/whatsapp-templates"

-----------------------------------------------------------------------------
(* Properties of sendSevenApiRequest, for both nodes *)

\* the last operation called sendSevenApiRequest: an item of execute() that
\* issues a single request, or a hook of the trigger that issues one
RequestWasDue ==
    \/ /\ node = "sendSeven"
       /\ cur.status \in {"ok", "failed"}
       /\ Prepare(resource, operation, cur.params).kind = "request"
    \/ /\ node = "sendSevenTrigger"
       /\ lastCall.op \in {"checkExists", "create"}

\* the error the last operation surfaced has the credential-read failure as its cause
CredentialFailureSurfaced ==
    \/ cur.status = "failed" /\ Has(cur.error, "cause") /\ cur.error.cause = "CredentialError"
    \/ Has(thrown, "cause") /\ thrown.cause = "CredentialError"
    \/ /\ lastCall.op = "delete" /\ lastCall.threw
       /\ Has(lastCall.error, "cause") /\ lastCall.error.cause = "CredentialError"

\* C9: when the read of the sendSevenOAuth2Api credentials fails, sendSevenApiRequest
\* issues the request with credential type sendSevenApi, and the failed read is
\* never surfaced as an error.
C9_FallsBackToApiKey ==
    ~oauthReadable
        => /\ \A q \in requests : q.cred = "sendSevenApi"
           /\ RequestWasDue => (lastRequest # NoRequest /\ lastRequest.cred = "sendSevenApi")
           /\ ~CredentialFailureSurfaced

\* the node is set to oAuth2, the OAuth2 credentials cannot be read, and the
\* request of an item went out with the API key and succeeded
C9_RequestSentWithApiKey ==
    /\ ~oauthReadable
    /\ authentication = "oAuth2"
    /\ node = "sendSeven"
    /\ cur.status = "ok"
    /\ lastRequest # NoRequest
    /\ lastRequest.cred = "sendSevenApi"

\* C10: whenever the sendSevenOAuth2Api credentials can be read, every request is
\* authenticated with sendSevenOAuth2Api, whatever the node's authentication
\* parameter is; sendSevenApi is used only when the OAuth2 read fails.
C10_OAuth2WinsWhenReadable ==
    \A q \in requests :
        /\ oauthReadable => q.cred = "sendSevenOAuth2Api"
        /\ q.cred = "sendSevenApi" => ~oauthReadable

\* the node is set to apiKey, the OAuth2 credentials can be read, and a request
\* went out with the OAuth2 credential type
C10_OAuth2UsedDespiteApiKeySetting ==
    /\ oauthReadable
    /\ authentication = "apiKey"
    /\ \E q \in requests : q.cred = "sendSevenOAuth2Api"
    /\ lastRequest # NoRequest
    /\ lastRequest.cred = "sendSevenOAuth2Api"

-----------------------------------------------------------------------------
(* Properties of the order of execute() *)

\* the requests were issued in the order of the items they were issued for
RequestsInItemOrder ==
    \A q1, q2 \in requests : q1.n < q2.n => q1.item <= q2.item

\* the item in progress or just processed calls for no paging, and at most one
\* request was issued for it
AtMostOneRequestForItem ==
    (cur.status # "none" /\ Prepare(resource, operation, cur.params).kind # "allItems")
        => Cardinality({ q \in requests : q.item = cur.index }) <= 1

\* s is a prefix of t
IsPrefix(s, t) == Len(s) <= Len(t) /\ SubSeq(t, 1, Len(s)) = s

\* C11: execute() processes the input items in index order, one at a time: the
\* requests are issued in item order and only for the item in progress, an
\* operation without paging issues at most one request per item (a failed
\* request is not retried), and the outputs are appended in item order.
C11_ItemsInOrderOneAtATime ==
    [][ /\ RequestsInItemOrder'
        /\ AtMostOneRequestForItem'
        /\ \A q \in requests' \ requests : q.item = i /\ q.n = Cardinality(requests) + 1
        /\ Cardinality(requests') <= Cardinality(requests) + 1
        /\ i' \in {i, i + 1}
        /\ IsPrefix(returnData, returnData') ]_vars

\* a run of two items that returned: one request for the first item, then one
\* for the second, and the outputs of both
C11_TwoItemsInOrder ==
    /\ node = "sendSeven"
    /\ pc = "done"
    /\ nItems >= 2
    /\ \E q1, q2 \in requests : q1.n = 1 /\ q1.item = 0 /\ q2.n = 2 /\ q2.item = 1
    /\ Cardinality(requests) = 2
    /\ Len(returnData) >= 2

-----------------------------------------------------------------------------
(* Properties of the errors of sendSevenApiRequest *)

\* the call of sendSevenApiRequest was answered with a failure of the HTTP request
RequestFailed == lastCall.op = "request" /\ ~lastCall.outcome.ok

\* the body of the response of raw error e, empty when there is none
BodyOf(e) ==
    IF Has(e, "response") /\ Has(e.response, "body") THEN e.response.body ELSE EmptyObj

\* the first of the texts of `candidates` that `counts`, else the fixed string
FirstThat(counts(_), candidates) ==
    LET found == { n \in 1..Len(candidates) : counts(candidates[n]) }
    IN  IF found = {} THEN "An unknown error occurred"
        ELSE candidates[CHOOSE n \in found : \A m \in found : n <= m].text

\* the body's detail, the body's message and the error's own message, each
\* with whether it is present
MessageCandidates(e) ==
    << [has |-> Has(BodyOf(e), "detail"), text |-> Get(BodyOf(e), "detail")],
       [has |-> Has(BodyOf(e), "message"), text |-> Get(BodyOf(e), "message")],
       [has |-> Has(e, "message"), text |-> Get(e, "message")] >>

IsPresent(c) == c.has
IsFilled(c) == c.has /\ c.text # ""

\* the call threw a NodeApiError with message m and returned nothing
ThrewApiError(m) ==
    /\ lastCall.result.threw
    /\ ~Has(lastCall.result, "data")
    /\ lastCall.result.error.name = "NodeApiError"
    /\ lastCall.result.error.message = m

\* C12 as stated: a failed request makes sendSevenApiRequest throw a NodeApiError
\* whose message is the body's detail if present, else the body's message if
\* present, else the raw error's message, else 'An unknown error occurred'.
C12_MessageByPresence ==
    RequestFailed
        => ThrewApiError(FirstThat(IsPresent, MessageCandidates(lastCall.outcome.error)))

\* C12, amended: a failed request makes sendSevenApiRequest throw a NodeApiError
\* whose message is the first non-empty one of the body's detail, the body's
\* message and the raw error's message, else 'An unknown error occurred'; an
\* empty detail or message counts as absent.  No value is returned.
C12_MessageByFirstFilled ==
    RequestFailed
        => ThrewApiError(FirstThat(IsFilled, MessageCandidates(lastCall.outcome.error)))

\* a request failed with the detail "Not found" beside a message in the body,
\* and the NodeApiError thrown carries the detail
C12_DetailWins ==
    /\ RequestFailed
    /\ Has(BodyOf(lastCall.outcome.error), "message")
    /\ BodyOf(lastCall.outcome.error).message # ""
    /\ ThrewApiError("Not found")

-----------------------------------------------------------------------------
(* Properties of the contact payload *)

\* the item just processed is a contact create whose request went out
ContactCreateSent ==
    /\ <<resource, operation>> = <<"contact", "create">>
    /\ cur.status \in {"ok", "failed"}
    /\ lastRequest # NoRequest

\* a customFields input that holds something: not the empty text, not the
\* default '{}', not an empty object
CustomFieldsFilled(c) ==
    IF c.t = "string" THEN c.v \notin {"", "{}"} ELSE c.o # EmptyObj

\* the input behind payload key k was filled in for the item with parameters p
InputFilled(p, k) ==
    CASE k = "name" -> p.name # ""
      [] k = "email" -> p.email # ""
      [] k = "phone" -> p.phone # ""
      [] k = "first_name" -> TruthyAt(p.additionalFields, "firstName")
      [] k = "last_name" -> TruthyAt(p.additionalFields, "lastName")
      [] k = "company" -> TruthyAt(p.additionalFields, "company")
      [] k = "notes" -> TruthyAt(p.additionalFields, "notes")
      [] k = "custom_fields" -> /\ Has(p.additionalFields, "customFields")
                                /\ CustomFieldsFilled(p.additionalFields.customFields)
      [] OTHER -> FALSE

PayloadKeys ==
    {"name", "email", "phone", "first_name", "last_name", "company", "notes", "custom_fields"}

\* C13 as stated: the contact-create payload holds a key exactly for the inputs
\* that were filled in; every field left empty is omitted (customFields left
\* at its default '{}' included).
C13_OnlyFilledFieldsSent ==
    ContactCreateSent
        => \A k \in PayloadKeys : Has(lastRequest.body, k) <=> InputFilled(cur.params, k)

\* a contact create whose customFields was left at '{}' went out with an empty
\* custom_fields object in its payload
C13_DefaultCustomFieldsSent ==
    /\ ContactCreateSent
    /\ Has(cur.params.additionalFields, "customFields")
    /\ cur.params.additionalFields.customFields = JsString("{}")
    /\ Has(lastRequest.body, "custom_fields")
    /\ lastRequest.body.custom_fields = EmptyObj

\* the item just processed is a contact create or update with a customFields
\* input, and it passed the checks that come before the payload is built
CustomFieldsGiven ==
    /\ resource = "contact" /\ operation \in {"create", "update"}
    /\ cur.status \in {"ok", "failed"}
    /\ Has(cur.params.additionalFields, "customFields")
    /\ IF operation = "create"
       THEN cur.params.email # "" \/ cur.params.phone # ""
       ELSE cur.params.contactId # ""

\* the payload of the item's request, empty when the request carries no body
SentBody == IF Has(lastRequest, "body") THEN lastRequest.body ELSE EmptyObj

\* the request of the item went out with custom_fields = v
SentCustomFields(v) ==
    /\ lastRequest # NoRequest
    /\ Has(SentBody, "custom_fields")
    /\ SentBody.custom_fields = v

\* the item failed on the text before any request went out for it
FailedOnParse ==
    /\ cur.status = "failed"
    /\ cur.error.name = "SyntaxError"
    /\ lastRequest = NoRequest
    /\ \A q \in requests : q.item # cur.index

\* the JSON texts among the inputs, and the values they denote
WellFormedJson == {"{}", "{\"tier\":\"gold\"}"}
JsonValue(text) == IF text = "{}" THEN EmptyObj ELSE [tier |-> "gold"]

\* what the claim says of the customFields input c
CustomFieldsHandled(c) ==
    IF c.t = "string"
    THEN IF c.v \in WellFormedJson THEN SentCustomFields(JsonValue(c.v))
         ELSE FailedOnParse
    ELSE SentCustomFields(c.o)

-----------------------------------------------------------------------------
(* Properties of WhatsApp template send *)

\* the item just processed is a template send whose request went out
TemplateSendSent ==
    /\ <<resource, operation>> = <<"whatsappTemplate", "send">>
    /\ cur.status \in {"ok", "failed"}
    /\ lastRequest # NoRequest

\* the template variables of the item
VariablesGiven ==
    IF Has(cur.params.templateVariables, "variables")
    THEN cur.params.templateVariables.variables ELSE << >>

\* the text that stands for a variable value: a number in decimal, a text as it is
ValueAsText(v) == IF v.t = "number" THEN ToString(v.v) ELSE v.v

\* C15: with k >= 1 template variables the payload's template has exactly one
\* component, of type body, with k parameters in the variables' order, each of
\* type "text" with the stringified value; with k = 0 the template has no
\* components key; the output's variablesSent is k.
C15_OneBodyComponentWithAllVariables ==
    TemplateSendSent
        => LET k == Len(VariablesGiven)
               template == lastRequest.body.content.template
           IN  /\ IF k = 0 THEN ~Has(template, "components")
                  ELSE /\ Has(template, "components")
                       /\ Len(template.components) = 1
                       /\ template.components[1].type = "body"
                       /\ template.components[1].parameters =
                            [n \in 1..k |-> [type |-> "text",
                                             text |-> ValueAsText(VariablesGiven[n].value)]]
               /\ cur.status = "ok"
                    => returnData[Len(returnData)].json.variablesSent = k

\* a template send with the variables 7 and "Ada" went out with the parameters
\* "7" and "Ada", in this order, and reported two variables sent
C15_TwoVariablesSent ==
    /\ TemplateSendSent
    /\ cur.status = "ok"
    /\ Len(VariablesGiven) = 2
    /\ lastRequest.body.content.template.components[1].parameters
         = << [type |-> "text", text |-> "7"], [type |-> "text", text |-> "Ada"] >>
    /\ returnData[Len(returnData)].json.variablesSent = 2

-----------------------------------------------------------------------------
(* Properties of the signature of a delivery *)

\* the last call was a delivery of the configured event
MatchingDelivery ==
    /\ lastCall.op = "webhook"
    /\ Has(lastCall.body, "event")
    /\ lastCall.body.event = event

\* C16: for a delivery of the configured event the result of webhook() is the
\* formatted payload of the body, whatever the x-sendseven-signature header
\* holds and whether or not a secretKey is stored: the signature never rejects
\* or alters a delivery.
C16_SignatureNeverChangesResult ==
    MatchingDelivery
        => lastCall.result =
             [workflowData |-> << << [json |-> FormattedData(event, lastCall.body)] >> >>]

\* a delivery without signature was handed to the workflow while a secret was stored
C16_UnsignedDeliveryAcceptedWithSecret ==
    /\ MatchingDelivery
    /\ TruthyAt(staticData, "secretKey")
    /\ ~Has(lastCall.headers, "x-sendseven-signature")
    /\ Has(lastCall.result, "workflowData")

-----------------------------------------------------------------------------
(* Properties of pages without a pagination envelope *)

\* a step in which sendSevenApiRequestAllItems received a page from an API that
\* sends no pagination envelope
BarePageReceived ==
    /\ pc = "paging"
    /\ api.env = "none"
    /\ pageRequests' = pageRequests + 1
    /\ pc' \in {"paging", "paged"}

\* the number of items of the page received in the step
ReceivedItems == Len(allItems') - Len(allItems)

\* C17 as stated: without a pagination envelope a further page is requested
\* exactly when the page just received holds exactly 100 items.
C17_FurtherPageIffFullPage ==
    [][BarePageReceived => (pc' = "paging" <=> ReceivedItems = pageSize)]_vars

\* C17, amended: without a pagination envelope a further page is requested
\* exactly when the page just received holds exactly 100 items and it was not
\* the 100th page of the call; a page with fewer items (zero items and a
\* missing items key included) ends the aggregation.
C17_FurtherPageIffFullPageBelowLimit ==
    [][BarePageReceived
         => (pc' = "paging" <=> (ReceivedItems = pageSize /\ pageRequests' < SafetyLimit))]_vars

\* after a first page of 100 items without envelope the call goes on to page 2
C17_SecondPageAfterFullPage ==
    /\ pc = "paging"
    /\ api.env = "none"
    /\ pageRequests = 1
    /\ Len(allItems) = pageSize
    /\ page = 2

-----------------------------------------------------------------------------
(* Properties of the static data *)

\* the keys of the static data that a step writes or deletes
ChangedKeys ==
    { k \in DOMAIN staticData \cup DOMAIN staticData' :
        \/ Has(staticData, k) # Has(staticData', k)
        \/ Get(staticData, k) # Get(staticData', k) }

\* C18: the only keys of the static data that are written or deleted are
\* webhookId and secretKey, and only checkExists, create and delete do so;
\* webhook() and every step of execute() leave the static data unchanged.
C18_OnlyLifecycleHooksChangeStaticData ==
    [][/\ ChangedKeys \subseteq {"webhookId", "secretKey"}
       /\ ChangedKeys # {}
            => /\ node = "sendSevenTrigger"
               /\ calls' = calls + 1
               /\ lastCall'.op \in {"checkExists", "create", "delete"}]_vars

\* a delivery was handled while the static data held what create() had stored
C18_DeliveryLeftStoredDataAlone ==
    /\ lastCall.op = "webhook"
    /\ DOMAIN staticData = {"webhookId", "secretKey"}

-----------------------------------------------------------------------------
(* Properties of the list operations with returnAll false *)

\* a step in which execute() processes an item of contact search, conversation
\* search or template list with returnAll false
LimitedListStep ==
    /\ node = "sendSeven" /\ pc = "loop" /\ i < nItems
    /\ <<resource, operation>> \in ListOperations
    /\ pc' \in {"loop", "threw"}
    /\ cur'.index = i
    /\ ~cur'.params.returnAll

-----------------------------------------------------------------------------
(* Properties of create() followed by delete() *)

\* a step in which delete() is called right after a create() that succeeded
DeleteAfterCreate ==
    /\ lastCall.op = "create"
    /\ lastCall.result
    /\ calls' = calls + 1
    /\ lastCall'.op = "delete"

\* the id in the response of the create() that was the last call
CreatedId == NewHookId(calls)

\* C20: a delete() that follows a successful create() sends its DELETE request
\* to exactly the webhook id that create's response returned; when that DELETE
\* succeeds, delete() returns true and the static data holds neither webhookId
\* nor secretKey.
C20_DeleteTargetsCreatedWebhook ==
    [][DeleteAfterCreate
         => /\ Cardinality(requests' \ requests) = 1
            /\ lastRequest'.method = "DELETE"
            /\ lastRequest'.url = API_BASE_URL \o "/webhooks/" \o CreatedId
            /\ ~lastCall'.threw
                 => /\ lastCall'.result
                    /\ ~Has(staticData', "webhookId")
                    /\ ~Has(staticData', "secretKey")]_vars

\* create() and then delete() were called, the DELETE for the created webhook
\* succeeded and nothing is left in the static data
C20_CreatedWebhookDeleted ==
    /\ calls = 2
    /\ lastCall.op = "delete"
    /\ lastCall.target = NewHookId(1)
    /\ ~lastCall.threw
    /\ lastCall.result
    /\ lastRequest.method = "DELETE"
    /\ staticData = EmptyObj

-----------------------------------------------------------------------------
(* Properties of create() *)

\* a step that is a call of create()
CreateStep == calls' = calls + 1 /\ lastCall'.op = "create"

\* the static data after create() stored the id and the secret of response resp
StoredFrom(resp) ==
    With(With(staticData, "webhookId",
              IF Has(resp.o, "webhook_id") THEN resp.o.webhook_id ELSE resp.o.id),
         "secretKey", Get(resp.o, "secret_key"))

\* C21: create() posts a subscription whose url is the node's webhook URL and
\* whose subscribed_events is exactly [configured event]; on success it returns
\* true and stores webhookId (the response's webhook_id, else its id) and
\* secretKey; on an API error it returns false, does not throw, and leaves the
\* static data unchanged.
C21_CreatePostsAndStores ==
    [][CreateStep
         => /\ Cardinality(requests' \ requests) = 1
            /\ lastRequest'.method = "POST"
            /\ lastRequest'.url = API_BASE_URL \o "/webhooks"
            /\ lastRequest'.body.url = webhookUrl
            /\ lastRequest'.body.subscribed_events = << event >>
            /\ IF lastCall'.threw
               THEN /\ ~lastCall'.result
                    /\ staticData' = staticData
               ELSE /\ lastCall'.result
                    /\ \E resp \in CreateResponses(NewHookId(calls')) :
                         staticData' = StoredFrom(resp)]_vars

\* create() succeeded and stored the id and the secret of the new subscription
C21_CreatedAndStored ==
    /\ lastCall.op = "create"
    /\ lastCall.result
    /\ DOMAIN staticData = {"webhookId", "secretKey"}
    /\ staticData.webhookId = NewHookId(calls)
    /\ staticData.secretKey = "s3cr3t"
    /\ lastRequest.method = "POST"

-----------------------------------------------------------------------------
(* Properties of checkExists() *)

\* a step that is a call of checkExists()
CheckExistsStep == calls' = calls + 1 /\ lastCall'.op = "checkExists"

\* subscription h is for the node's webhook URL and the configured event
ForThisNode(h) ==
    /\ h.url = webhookUrl
    /\ Has(h, "subscribed_events")
    /\ event \in h.subscribed_events

\* C22: checkExists() returns true exactly when the GET /webhooks request
\* succeeds and the returned list holds a webhook whose url is the node's
\* webhook URL and whose subscribed_events includes the configured event, and
\* it then stores the id of that webhook (the first such) as webhookId; when
\* the request fails or no webhook matches it returns false and leaves the
\* static data unchanged.
C22_CheckExistsFindsOwnWebhook ==
    [][CheckExistsStep
         => /\ lastRequest'.method = "GET"
            /\ lastRequest'.url = API_BASE_URL \o "/webhooks"
            /\ lastCall'.result
                 <=> (~lastCall'.threw /\ \E n \in 1..Len(remote) : ForThisNode(remote[n]))
            /\ IF lastCall'.result
               THEN \E n \in 1..Len(remote) :
                      /\ ForThisNode(remote[n])
                      /\ \A m \in 1..(n - 1) : ~ForThisNode(remote[m])
                      /\ staticData' = With(staticData, "webhookId", remote[n].id)
               ELSE staticData' = staticData]_vars

\* checkExists() passed over the subscription without events and found the own
\* one behind it
C22_OwnWebhookFound ==
    /\ lastCall.op = "checkExists"
    /\ lastCall.result
    /\ Len(remote) >= 2
    /\ remote[1] = LegacyHook
    /\ staticData.webhookId = OwnHook(event).id

-----------------------------------------------------------------------------
(* Properties of the lifecycle as the host drives it *)

\* the subscriptions the API holds for the node's webhook URL and configured event
OwnSubscriptions == { n \in 1..Len(remote) : ForThisNode(remote[n]) }

\* C23: when the host calls create() only directly after checkExists() returned
\* false, the API holds at most one subscription for the node's webhook URL and
\* configured event, also when individual API requests fail.
C23_AtMostOneSubscription == Cardinality(OwnSubscriptions) <= 1

\* create() was called after a checkExists() whose request failed while the
\* API held a subscription of the node, and the API now holds two
C23_DuplicateAfterFailedCheck ==
    /\ lastCall.op = "create"
    /\ lastCall.result
    /\ Cardinality(OwnSubscriptions) = 2

-----------------------------------------------------------------------------
(* Properties of delete() without a stored webhook id *)

\* a step that is a call of delete()
DeleteStep == calls' = calls + 1 /\ lastCall'.op = "delete"

\* the step returns true, sends nothing and leaves the static data as it is
ReturnsTrueAndDoesNothing ==
    /\ lastCall'.result
    /\ requests' = requests
    /\ lastRequest' = NoRequest
    /\ staticData' = staticData
    /\ remote' = remote

\* C24: delete() with no webhookId in the static data returns true without
\* issuing any HTTP request and without changing the static data; hence a
\* delete() called after a delete() that returned true does nothing and
\* returns true.
C24_DeleteWithoutIdDoesNothing ==
    [][/\ (DeleteStep /\ ~Has(staticData, "webhookId")) => ReturnsTrueAndDoesNothing
       /\ (DeleteStep /\ lastCall.op = "delete" /\ lastCall.result)
            => ReturnsTrueAndDoesNothing]_vars

\* create(), a delete() whose DELETE request succeeded, and a second delete()
\* that sent nothing
C24_SecondDeleteSentNothing ==
    /\ calls = 3
    /\ lastCall.op = "delete"
    /\ lastCall.result
    /\ lastCall.target = Undefined
    /\ lastRequest = NoRequest
    /\ Cardinality({ r \in requests : r.method = "DELETE" }) = 1
    /\ staticData = EmptyObj

-----------------------------------------------------------------------------
(* Properties of the order of pages *)

\* a step in which sendSevenApiRequestAllItems requests a page
PageRequestStep == pc = "paging" /\ pageRequests' = pageRequests + 1

\* caller queries, some with a page or a page_size of their own
CallerQueries ==
    { EmptyObj, [search |-> "ada"],
      [search |-> "ada", page |-> 7], [page_size |-> 10],
      [status |-> "open", page |-> 7, page_size |-> 10] }

\* C25: sendSevenApiRequestAllItems requests pages 1, 2, 3, ... one after the
\* other with page_size 100, whatever page or page_size the caller's query
\* holds, requests page k+1 only after the response to page k, and returns the
\* items in page order, each page's items in the order received.
C25_PagesInOrder ==
    [][PageRequestStep
         => /\ Cardinality(requests' \ requests) = 1
            /\ \A r \in requests' \ requests : r.n = Cardinality(requests) + 1
            /\ lastRequest'.method = "GET"
            /\ lastRequest'.qs.page = pageRequests + 1
            /\ lastRequest'.qs.page_size = pageSize
            /\ \A q \in CallerQueries :
                 LET sent == PageQuery(q, pageRequests + 1)
                 IN  /\ sent.page = pageRequests + 1
                     /\ sent.page_size = pageSize
                     /\ DOMAIN sent = DOMAIN q \cup {"page", "page_size"}
                     /\ \A k \in DOMAIN q \ {"page", "page_size"} : sent[k] = q[k]
            /\ pc' \in {"paging", "paged"}
                 => allItems' = allItems \o PageItems(api, pageRequests + 1, pageSize)]_vars

\* a call that returned the 101 items of two pages in their order
C25_TwoPagesInOrder ==
    /\ pc = "paged"
    /\ pageRequests = 2
    /\ lastRequest.qs.page = 2
    /\ allItems = ItemRange(1, pageSize + 1)

-----------------------------------------------------------------------------
(* Properties of a failed page request *)

\* a step in which a page request of sendSevenApiRequestAllItems fails
PageRequestFails ==
    /\ pc = "paging"
    /\ pageRequests' = pageRequests + 1
    /\ pc' \notin {"paging", "paged"}

\* C26: when a page request inside sendSevenApiRequestAllItems fails, the call
\* throws that API error, none of the items collected from earlier pages is
\* returned, and no further page request is issued: the failed page is not
\* requested again.
C26_FailedPageEndsTheCall ==
    [][/\ PageRequestFails
            => /\ cur'.status = "failed"
               /\ cur'.error.name = "NodeApiError"
               /\ cur'.error.cause = "HttpError"
               /\ IF continueOnFail
                  THEN /\ returnData' = Append(returnData, [json |-> [error |-> cur'.error.message]])
                       /\ pc' = "loop" /\ i' = i + 1
                  ELSE /\ returnData' = returnData
                       /\ pc' = "threw" /\ thrown' = cur'.error
       /\ \A r \in requests' \ requests : r.item = i
       /\ i' >= i
       /\ pc = "threw" => UNCHANGED vars]_vars

\* the request for page 2 failed after page 1 had brought 100 items, and the
\* item gave one error output and none of the 100
C26_SecondPageFailed ==
    /\ continueOnFail
    /\ cur.status = "failed"
    /\ cur.error.name = "NodeApiError"
    /\ pageRequests = 2
    /\ Len(allItems) = pageSize
    /\ i = 1
    /\ Len(returnData) = 1
    /\ DOMAIN returnData[1].json = {"error"}

-----------------------------------------------------------------------------
(* Properties of the output of webhook() *)

\* the member of `data` that holds the primary resource of event e
PrimaryKey(e) ==
    CASE e \in {"message.received", "message.sent", "message.status_updated"} -> "message"
      [] e \in {"conversation.created", "conversation.closed"} -> "conversation"
      [] e \in {"contact.created", "contact.updated"} -> "contact"
      [] e \in {"ticket.created", "ticket.closed"} -> "ticket"
      [] OTHER -> "campaign"

\* the primary resource of a delivery: the member of data named after the event
\* family; without that member, data itself, except for a message
PrimaryResource(body) ==
    LET data == IF Has(body, "data") THEN body.data ELSE EmptyObj
        key  == PrimaryKey(body.event)
    IN  IF Has(data, key) THEN data[key]
        ELSE IF key = "message" THEN EmptyObj ELSE data

\* C27: when body.event equals the configured event, webhook() returns exactly
\* one workflow output item, whose event is the received event, whose timestamp
\* is body.timestamp, and whose id is the id of the event's primary resource
\* (message, conversation, contact, ticket or campaign, by event family) or,
\* when that id is absent, body.event_id.
C27_OneItemWithResourceId ==
    MatchingDelivery
        => /\ DOMAIN lastCall.result = {"workflowData"}
           /\ Len(lastCall.result.workflowData) = 1
           /\ Len(lastCall.result.workflowData[1]) = 1
           /\ LET json == lastCall.result.workflowData[1][1].json
                  primary == PrimaryResource(lastCall.body)
              IN  /\ json.event = lastCall.body.event
                  /\ json.timestamp = lastCall.body.timestamp
                  /\ json.id = IF Has(primary, "id") THEN primary.id
                               ELSE Get(lastCall.body, "event_id")

\* a message delivery whose message has no id gave an item with the id of the
\* delivery's event_id
C27_EventIdForMessageWithoutId ==
    /\ MatchingDelivery
    /\ event = "message.sent"
    /\ Has(lastCall.body, "data")
    /\ Has(lastCall.body.data, "message")
    /\ ~Has(lastCall.body.data.message, "id")
    /\ lastCall.result.workflowData[1][1].json.id = "evt_1"

====
